---------------------------- MODULE Spec2Model ----------------------------
(***************************************************************************)
(* Model of the rate-limited, retrying request path of DataFetcherAgent    *)
(* (src/src/agents/data_fetcher.py): RateLimitTracker, the asyncio         *)
(* semaphore of max_workers slots and _make_api_request; of the cached     *)
(* fetch operations, the batch fetch and the operations built on them; and *)
(* of AutoTokenManager (src/src/agents/auto_token_manager.py) with its     *)
(* background loop, token stores and process-wide instance.                *)
(*                                                                         *)
(* Scheduling is asyncio's: one thread, and a coroutine runs without       *)
(* interruption from one suspension point to the next.  Every action below *)
(* is one such run.  The suspension points of _make_api_request are the    *)
(* wait for a semaphore slot, the rate-limit sleep (line 875), the backoff *)
(* sleep (line 888) and the awaited provider call (line 891).              *)
(*                                                                         *)
(* Time: the code reads the clock only as now - window_start, which the    *)
(* model keeps as rate_limiter.elapsed, in seconds.  The clock advances in *)
(* steps of SecondsPerTick seconds.  A sleep ends once the clock has       *)
(* advanced by at least its length; a sleep shorter than one clock step    *)
(* may end between two steps.                                              *)
(***************************************************************************)
EXTENDS Integers, Sequences, FiniteSets, TLC

\* ---------------------------------------------------------------- bounds
NumRequests == 3            \* concurrent _make_api_request calls
max_workers == 2            \* settings.max_workers
requests_per_window == 1    \* settings.yahoo_api_rate_limit
window_seconds == 450       \* settings.yahoo_api_rate_window_seconds
SecondsPerTick == 150       \* granularity of the clock
NumFetches == 2             \* concurrent fetch operations
NumParams == 1              \* distinct parameter values of an operation
NumLeagues == 2             \* league keys a batch fetch can be given
async_timeout_seconds == 150    \* settings.async_timeout_seconds
MaxDictLen == 3             \* parameters of a map given to _generate_cache_key
MaxCalls == 2               \* calls of _generate_cache_key for one map
NumCallers == 2             \* concurrent callers of start, stop, force_refresh
NumLoops == 2               \* background loop tasks in existence at a time
check_interval_seconds == 2 \* AutoTokenManager.check_interval_seconds
MaxRefreshes == 2           \* successful refreshes in a run
MaxInside == 2              \* seconds inside the refresh buffer that are tracked
expires_in == 602           \* lifetime in seconds of refreshed Credentials
MaxWriteFaults == 1         \* failed writes of the .env file in a run

\* ------------------------------------------------------ program constants
max_retries == 3            \* APIRequest.max_retries
backoff_factor == 2         \* APIRequest.backoff_factor
MaxWait == 300              \* min(wait_time, 300)
refresh_buffer_minutes == 10    \* AutoTokenManager.refresh_buffer_minutes
token_lifetime == 3600      \* lifetime given to Credentials of the environment

Requests == 1..NumRequests

Min(a, b) == IF a < b THEN a ELSE b

\* Outcomes of one provider call (_execute_yahoo_request).
\* "ClientError" stands for the classes of the retrying except clause
\* (aiohttp.ClientError, asyncio.TimeoutError), "AuthenticationError" for any
\* other exception.
TransientErrors == {"ClientError"}
Outcomes == {"ok", "AuthenticationError"} \cup TransientErrors

\* A response or an exception instance: its kind and the attempt that produced it.
Value(k, a) == [kind |-> k, attempt |-> a]
NoValue == Value("None", 0)

VARIABLES
    rate_limiter,   \* RateLimitTracker: [requests_made, elapsed = now - window_start]
    sem_value,      \* free slots of self._semaphore
    waiters,        \* FIFO queue of requests suspended in the semaphore
    req,            \* per request: position, locals and history
    window_calls    \* history: provider calls issued inside the tracker's current
                    \* window, counted up to requests_per_window + 1

vars == <<rate_limiter, sem_value, waiters, req, window_calls>>

VARIABLES
    cache,          \* the cache behind cache_manager: key -> value, NoValue if absent
    fetch,          \* per fetch operation in progress: position, key, locals, result
    operation       \* the fetch operation the callers of this run call

fvars == <<cache, fetch, operation>>

VARIABLES
    batch           \* fetch_multiple_leagues_data: position, arguments, the tasks
                    \* of its leagues, the time left of its timeout, its result

VARIABLES
    keygen          \* _generate_cache_key: the endpoint, the parameter map in
                    \* insertion order, the key last generated, the calls made

VARIABLES
    manager,        \* AutoTokenManager: _running, _background_task, last_refresh_time
                    \* (seconds ago, -1 for None), refresh_count, last_error
    yahoo_auth,     \* YahooAuth: the Credentials held (tokens) and the auth state
    storage,        \* the Credentials of the environment (.env), of the token file
                    \* and of the launcher configuration; history: the writes
                    \* of .env that have failed
    loop,           \* per background loop task: position, sleeps done in this
                    \* cycle, time left of the sleep, cancellation requested
    caller,         \* per caller of the manager: position, operation, task awaited
    provider,       \* the state of the credential refresh capability
    event,          \* history: what the last step did
    singleton       \* _auto_token_manager: whether the global holds an instance;
                    \* history: the instances get_auto_token_manager has built
                    \* and the start() calls it has made

tvars == <<manager, yahoo_auth, storage, loop, caller, provider, event, singleton>>

VARIABLES
    composite       \* per operation that calls other fetch operations: position,
                    \* operation, the call it is at, gate slots it holds, result

allvars == <<vars, fvars, batch, keygen, tvars, composite>>

\* ------------------------------------------------------- RateLimitTracker

\* Variant: the window expires as soon as window_seconds have elapsed.
Expired_AtBoundary(rl) == rl.elapsed >= window_seconds

Expired(rl) == rl.elapsed > window_seconds

\* can_make_request, the lazy reset: the tracker after the call.
AfterCheck(rl) ==
    IF Expired(rl) THEN [requests_made |-> 0, elapsed |-> 0] ELSE rl

\* can_make_request, the returned value (on the tracker after the reset).
\* Variant: admission up to and including the capacity.
Admits_Inclusive(rl) == rl.requests_made <= requests_per_window

Admits(rl) == rl.requests_made < requests_per_window

record_request(rl) == [rl EXCEPT !.requests_made = @ + 1]

time_until_reset(rl) ==
    LET remaining == window_seconds - rl.elapsed
    IN IF remaining > 0 THEN remaining ELSE 0

\* ------------------------------------------------------------- semaphore

\* asyncio.Semaphore.locked()
\* Variant: a gate that never makes a caller wait.
Locked_Never(v, w) == FALSE

Locked(v, w) == v = 0 \/ w # <<>>

\* Variant: a release that frees the slot but wakes no waiter.
release_NoWake(v, w) == [value |-> v + 1, waiters |-> w, woken |-> {}]

\* asyncio.Semaphore.release(): the slot goes to the first waiter, if any.
release(v, w) ==
    IF w # <<>>
    THEN [value |-> v, waiters |-> Tail(w), woken |-> {Head(w)}]
    ELSE [value |-> v + 1, waiters |-> w, woken |-> {}]

\* ------------------------------------------------------ _make_api_request

\* Variant: the rate-limit sleep without its cap.
RateWaitSleep_Uncapped(wt) == wt

RateWaitSleep(wt) == Min(wt, MaxWait)

\* Variant: a backoff that grows linearly.
BackoffDelay_Linear(a) == backoff_factor * a

BackoffDelay(a) == backoff_factor ^ a

\* Variant: every error is retried.
IsTransient_Every(o) == TRUE

IsTransient(o) == o \in TransientErrors

\* Variant: record_request() in a finally clause, run for every attempt.
Recorded_EveryAttempt(o) == TRUE

\* record_request() follows the awaited call, so it runs when the call returned.
Recorded(o) == o = "ok"

\* Whole clock steps a sleep of d seconds takes at least.
Ticks(d) == d \div SecondsPerTick

\* The frame of one _make_api_request call.  pc is its position; attempt,
\* last_exception and wait_time are the code's locals; sleep_left is the time
\* its current sleep still takes, in clock steps; result is what it returned
\* or raised.  The other fields are history: checks counts the
\* can_make_request calls made since the request's last provider call,
\* rate_sleep is the length of its rate-limit sleep, call_checked says whether
\* its last provider call followed a granted check, calls, fails and records
\* count its provider calls, those that failed transiently and its
\* record_request calls, backoffs lists its backoff delays and last_outcome is
\* the outcome of its last provider call.
InitReq ==
    [pc |-> "idle", attempt |-> 0, last_exception |-> NoValue, result |-> NoValue,
     wait_time |-> 0, sleep_left |-> 0,
     checks |-> 0, rate_sleep |-> 0, call_checked |-> TRUE,
     calls |-> 0, fails |-> 0, records |-> 0, backoffs |-> <<>>,
     last_outcome |-> NoValue]

\* A return or raise is no suspension point: the caller runs on with the
\* result before any other coroutine runs.  A frame is "done" in the state its
\* call ended in, and gone by the next step: cur is the frames every step
\* starts from.  The caller of a frame that is gone may call again.
cur == [u \in Requests |-> IF req[u].pc = "done" THEN InitReq ELSE req[u]]

\* The frame once the call has returned or raised res: its locals are gone
\* (wait_time stays, as the history of what the denied check read).
Finished(r, res) ==
    [r EXCEPT !.pc = "done", !.result = res, !.attempt = 0,
              !.last_exception = NoValue, !.sleep_left = 0]

\* Leaving "async with self._semaphore" (return or raise): request t, whose
\* record is r, ends with res; v is the semaphore's value before the release.
\* Variant: the slot is released on a normal return only.
Exit_ReleaseOnReturn(t, r, res, v) ==
    LET s == IF res.kind = "ok" THEN release(v, waiters)
             ELSE [value |-> v, waiters |-> waiters, woken |-> {}]
    IN /\ req' = [u \in Requests |->
                    IF u = t THEN Finished(r, res)
                    ELSE IF u \in s.woken THEN [cur[u] EXCEPT !.pc = "woken"]
                    ELSE cur[u]]
       /\ sem_value' = s.value
       /\ waiters' = s.waiters

Exit(t, r, res, v) ==
    LET s == release(v, waiters)
    IN /\ req' = [u \in Requests |->
                    IF u = t THEN Finished(r, res)
                    ELSE IF u \in s.woken THEN [cur[u] EXCEPT !.pc = "woken"]
                    ELSE cur[u]]
       /\ sem_value' = s.value
       /\ waiters' = s.waiters

\* The provider call of one attempt is issued (line 891).
StartAttempt(r) ==
    [r EXCEPT !.pc = "calling", !.calls = @ + 1, !.call_checked = r.checks > 0,
              !.checks = 0, !.rate_sleep = 0, !.wait_time = 0]

CountCall(rl, wc) ==
    IF rl.elapsed <= window_seconds THEN Min(wc + 1, requests_per_window + 1) ELSE wc

\* Lines 870-891, run by request t once it holds a slot; v is the semaphore's
\* value then.  Ends at the first provider call, at the rate-limit sleep, or
\* with RateLimitError.
Admission(t, v) ==
    LET rl1 == AfterCheck(rate_limiter)
        wc1 == IF Expired(rate_limiter) THEN 0 ELSE window_calls
        wt  == time_until_reset(rl1)
        r1  == [cur[t] EXCEPT !.checks = 1]
    IN IF Admits(rl1)
       THEN /\ rate_limiter' = rl1
            /\ window_calls' = CountCall(rl1, wc1)
            /\ req' = [cur EXCEPT ![t] = StartAttempt(r1)]
            /\ sem_value' = v
            /\ UNCHANGED waiters
       ELSE IF wt > 0
       THEN /\ rate_limiter' = rl1
            /\ window_calls' = wc1
            /\ req' = [cur EXCEPT ![t] =
                         [r1 EXCEPT !.pc = "ratewait", !.wait_time = wt,
                                    !.rate_sleep = RateWaitSleep(wt),
                                    !.sleep_left = Ticks(RateWaitSleep(wt))]]
            /\ sem_value' = v
            /\ UNCHANGED waiters
       ELSE \* wait_time = 0: no sleep, the second check is made at once
            LET rl2 == AfterCheck(rl1)
                r2  == [r1 EXCEPT !.checks = 2]
            IN /\ rate_limiter' = rl2
               /\ IF Admits(rl2)
                  THEN /\ window_calls' = CountCall(rl2, wc1)
                       /\ req' = [cur EXCEPT ![t] = StartAttempt(r2)]
                       /\ sem_value' = v
                       /\ UNCHANGED waiters
                  ELSE /\ window_calls' = wc1
                       /\ Exit(t, r2, Value("RateLimitError", 0), v)

\* A caller enters _make_api_request: "async with self._semaphore".
Invoke(t) ==
    /\ cur[t].pc = "idle"
    /\ IF ~Locked(sem_value, waiters)
       THEN Admission(t, sem_value - 1)
       ELSE /\ waiters' = Append(waiters, t)
            /\ req' = [cur EXCEPT ![t].pc = "queued"]
            /\ UNCHANGED <<rate_limiter, sem_value, window_calls>>

\* A waiter that was handed a slot runs again.
Resume(t) ==
    /\ cur[t].pc = "woken"
    /\ Admission(t, sem_value)

\* The rate-limit sleep is over: the one re-check of line 877.
WakeRate(t) ==
    /\ cur[t].pc = "ratewait"
    /\ cur[t].sleep_left = 0
    /\ LET rl2 == AfterCheck(rate_limiter)
           wc2 == IF Expired(rate_limiter) THEN 0 ELSE window_calls
           r2  == [cur[t] EXCEPT !.checks = @ + 1]
       IN /\ rate_limiter' = rl2
          /\ IF Admits(rl2)
             THEN /\ window_calls' = CountCall(rl2, wc2)
                  /\ req' = [cur EXCEPT ![t] = StartAttempt(r2)]
                  /\ UNCHANGED <<sem_value, waiters>>
             ELSE /\ window_calls' = wc2
                  /\ Exit(t, r2, Value("RateLimitError", 0), sem_value)

\* The awaited provider call of request t ends with outcome o (lines 891-911).
Return(t, o) ==
    /\ cur[t].pc = "calling"
    /\ LET e  == Value(o, cur[t].attempt)
           r0 == [cur[t] EXCEPT !.last_outcome = e,
                                !.records = IF Recorded(o) THEN @ + 1 ELSE @]
       IN /\ rate_limiter' = IF Recorded(o) THEN record_request(rate_limiter)
                             ELSE rate_limiter
          /\ UNCHANGED window_calls
          /\ IF o = "ok"
             THEN Exit(t, r0, e, sem_value)
             ELSE IF IsTransient(o)
             THEN LET r1 == [r0 EXCEPT !.last_exception = e, !.fails = @ + 1]
                  IN IF r1.attempt = max_retries
                     THEN Exit(t, r1, r1.last_exception, sem_value)
                     ELSE /\ req' = [cur EXCEPT ![t] =
                                [r1 EXCEPT !.pc = "backoff",
                                           !.attempt = @ + 1,
                                           !.backoffs = Append(@, BackoffDelay(r1.attempt + 1)),
                                           !.sleep_left = Ticks(BackoffDelay(r1.attempt + 1))]]
                          /\ UNCHANGED <<sem_value, waiters>>
             ELSE Exit(t, r0, e, sem_value)

\* The backoff sleep is over: the provider call of the next attempt.
WakeBackoff(t) ==
    /\ cur[t].pc = "backoff"
    /\ cur[t].sleep_left = 0
    /\ req' = [cur EXCEPT ![t] = StartAttempt(cur[t])]
    /\ window_calls' = CountCall(rate_limiter, window_calls)
    /\ UNCHANGED <<rate_limiter, sem_value, waiters>>

CancelledError == Value("CancelledError", 0)

\* The frame of a cancelled call: no claim reads its history.
Cancelled == InitReq

\* Request t is cancelled at the suspension point it is waiting at (the batch
\* timeout of fetch_multiple_leagues_data cancels its fetches): CancelledError
\* unwinds "async with", and a waiter leaves the semaphore's queue.
Cancel(t) ==
    /\ cur[t].pc \in {"queued", "woken", "ratewait", "calling", "backoff"}
    /\ UNCHANGED <<rate_limiter, window_calls>>
    /\ IF cur[t].pc = "queued"
       THEN /\ waiters' = SelectSeq(waiters, LAMBDA u : u # t)
            /\ req' = [cur EXCEPT ![t] = Finished(Cancelled, CancelledError)]
            /\ UNCHANGED sem_value
       ELSE Exit(t, Cancelled, CancelledError, sem_value)

\* The clock advances by one step.
Tick ==
    /\ rate_limiter' = [rate_limiter EXCEPT !.elapsed =
                           IF @ > window_seconds THEN @ ELSE @ + SecondsPerTick]
    /\ req' = [t \in Requests |->
                 [cur[t] EXCEPT !.sleep_left = IF @ > 0 THEN @ - 1 ELSE 0]]
    /\ UNCHANGED <<sem_value, waiters, window_calls>>

Next ==
    \/ \E t \in Requests : Invoke(t) /\ UNCHANGED <<fvars, batch, keygen, tvars, composite>>
    \/ \E t \in Requests : Resume(t) /\ UNCHANGED <<fvars, batch, keygen, tvars, composite>>
    \/ \E t \in Requests : WakeRate(t) /\ UNCHANGED <<fvars, batch, keygen, tvars, composite>>
    \/ \E t \in Requests, o \in Outcomes : Return(t, o) /\ UNCHANGED <<fvars, batch, keygen, tvars, composite>>
    \/ \E t \in Requests : WakeBackoff(t) /\ UNCHANGED <<fvars, batch, keygen, tvars, composite>>
    \/ \E t \in Requests : Cancel(t) /\ UNCHANGED <<fvars, batch, keygen, tvars, composite>>
    \/ Tick /\ UNCHANGED <<fvars, batch, keygen, tvars, composite>>

\* The steps request t takes by itself once its caller has entered.
Step(t) ==
    \/ Resume(t)
    \/ WakeRate(t)
    \/ WakeBackoff(t)
    \/ \E o \in Outcomes : Return(t, o)

\* ------------------------------------------------------ fetch operations

\* The operations that look up the cache, call _make_api_request on a miss and
\* store what they built from the response.
ListOperations == {"get_user_leagues", "get_league_teams", "get_available_players"}
DictOperations == {"get_roster", "get_matchup"}
Operations == ListOperations \cup DictOperations \cup {"get_player"}

Fetchers == 1..NumFetches
Params == 1..NumParams
Leagues == 1..NumLeagues

\* Variant: a key without the operation's prefix.
CacheKey_NoPrefix(op, p) == <<"get_roster", p>>

\* cache_key = f"<operation prefix>:<parameters>"
CacheKey(op, p) == <<op, p>>

Keys == {CacheKey(op, p) : op \in Operations, p \in Params \cup Leagues}

\* What an operation builds from the provider's response: a list with one
\* entry per item, a dict that holds the list of items, or, for get_player,
\* the player's dict (None for an empty response).
Transform(op, p, items) ==
    IF op \in ListOperations THEN [kind |-> "list", of |-> <<op, p>>, items |-> items]
    ELSE IF op \in DictOperations THEN [kind |-> "dict", of |-> <<op, p>>, items |-> items]
    ELSE IF items = 0 THEN NoValue
    ELSE [kind |-> "dict", of |-> <<op, p>>, items |-> items]

\* Variant: whatever the lookup gave is returned.
IsHit_Always(v) == TRUE

\* Variant: if cached_data (Python's truth value).
IsHit_Truthy(v) == v # NoValue /\ (v.kind = "list" => v.items > 0)

\* if cached_data is not None
IsHit(v) == v # NoValue

\* The outcome of an operation: a returned value or a raised exception.
Returned(v) == [kind |-> "return", value |-> v]
Raised(e) == [kind |-> "raise", value |-> e]
NoResult == [kind |-> "None", value |-> NoValue]

\* The exception of a cache that cannot be reached.
CacheError == Value("CacheError", 0)

\* get_player returns None from its except clause; the others re-raise.
OnException(op, e) == IF op = "get_player" THEN Returned(NoValue) ELSE Raised(e)

\* {"error": str(e)}
ErrorMark(e) == [kind |-> "error", of |-> e]

\* league_data of _fetch_league_data: the league key and, if fetched, the
\* available players or the mark of the error of their fetch.
Entry(l, d) == [league_key |-> l, available_players |-> d]

\* The task of one league: not in the batch, created, running, done with its
\* league_data, or cancelled.
Child(st, e) == [state |-> st, entry |-> e]

Fetches(dts) == \E i \in DOMAIN dts : dts[i] = "available_players"

TimeoutError == Value("TimeoutError", 0)

\* _generate_cache_key not yet called.
InitKeygen == [endpoint |-> <<>>, params |-> <<>>, key |-> -1, calls |-> 0]

\* -------------------------------------------------------- AutoTokenManager
\* src/src/agents/auto_token_manager.py.  Time is in seconds, the length of
\* one sleep of the background loop.  The manager reads the clock only as
\* expires_at - now, which the model keeps as the field ttl of the
\* Credentials.  A ttl at or under refresh_threshold - MaxInside, or over
\* expires_in, is not aged: it stands for every expiry that far inside the
\* refresh buffer, or that far ahead.

Callers == 1..NumCallers
Loops == 1..NumLoops

\* timedelta(minutes=self.refresh_buffer_minutes), in seconds.
refresh_threshold == refresh_buffer_minutes * 60

\* Credentials: the serial number of the access token and of the refresh
\* token that came with it (0 for the ones that were stored before the
\* manager was built) and the time left to expires_at.
Tokens(n, ttl) == [access_token |-> n, refresh_token |-> n, ttl |-> ttl]
NoTokens == Tokens(-1, 0)

Age(ttl) == IF refresh_threshold - MaxInside < ttl /\ ttl <= expires_in THEN ttl - 1 ELSE ttl

\* What the refresh capability does when a refresh call returns.
ProviderStates == {"working", "failing", "revoked"}

\* What the last step did: the operation (op) of caller or loop number id,
\* whether the step called the operation or resumed it, what its
\* check-and-refresh decided in this step ("no_tokens", "valid", "refresh"),
\* whether a refresh call returned in this step and how ("ok", "error"),
\* how many of the three keys of the .env file were written, the value
\* check-and-refresh returned in this step ("True", "False"), and what the
\* step did about the launcher configuration ("skipped", "ok", "failed").
Event(op, id, seg, check, refresh, wrote, result) ==
    [op |-> op, id |-> id, seg |-> seg, check |-> check, refresh |-> refresh,
     wrote |-> wrote, result |-> result, mirror |-> "none"]
NoEvent == Event("none", 0, "none", "none", "none", 0, "none")

InitManager ==
    [running |-> FALSE, background_task |-> 0, last_refresh_time |-> -1,
     refresh_count |-> 0, last_error |-> "None"]
InitAuth == [tokens |-> NoTokens, auth_state |-> "UNAUTHENTICATED"]
\* claude_desktop_config.json: whether it exists with an entry of this
\* server, and the serial number of the tokens in it.
Config(n) == [exists |-> TRUE, access_token |-> n]
InitStorage ==
    [env |-> NoTokens, token_file |-> NoTokens, 
     config |-> [exists |-> FALSE, access_token |-> -1], faults |-> 0]
InitLoop == [pc |-> "none", i |-> 0, sleep_left |-> 0, cancel |-> FALSE]
InitCaller == [pc |-> "idle", op |-> "none", task |-> 0]
InitSingleton == [global |-> FALSE, constructed |-> 0, starts |-> 0]

InitBatch ==
    [pc |-> "idle", league_keys |-> {}, data_types |-> <<>>, timer |-> 0,
     child |-> [l \in Leagues |-> Child("none", NoValue)], result |-> NoResult]

InitFetchOp ==
    [pc |-> "idle", p |-> 0, value |-> NoValue, result |-> NoResult,
     hit |-> FALSE, requested |-> FALSE]

\* The frame of an operation that calls other fetch operations.
InitComposite == [pc |-> "idle", op |-> "None", stage |-> 0, held |-> 0, result |-> "None"]

Init ==
    /\ rate_limiter = [requests_made |-> 0, elapsed |-> 0]
    /\ sem_value = max_workers
    /\ waiters = <<>>
    /\ req = [t \in Requests |-> InitReq]
    /\ window_calls = 0
    /\ cache = [k \in Keys |-> NoValue]
    /\ fetch = [t \in Fetchers |-> InitFetchOp]
    /\ operation = "None"
    /\ batch = InitBatch
    /\ keygen = InitKeygen
    /\ manager = InitManager
    /\ yahoo_auth = InitAuth
    /\ storage = InitStorage
    /\ loop = [l \in Loops |-> InitLoop]
    /\ caller = [c \in Callers |-> InitCaller]
    /\ provider = "working"
    /\ event = NoEvent
    /\ singleton = InitSingleton
    /\ composite = [t \in Fetchers |-> InitComposite]

\* The state after construction, with the operation the callers will call.
FetchInit ==
    /\ rate_limiter = [requests_made |-> 0, elapsed |-> 0]
    /\ sem_value = max_workers
    /\ waiters = <<>>
    /\ req = [t \in Requests |-> InitReq]
    /\ window_calls = 0
    /\ cache = [k \in Keys |-> NoValue]
    /\ fetch = [t \in Fetchers |-> InitFetchOp]
    /\ operation \in Operations
    /\ batch = InitBatch
    /\ keygen = InitKeygen
    /\ manager = InitManager
    /\ yahoo_auth = InitAuth
    /\ storage = InitStorage
    /\ loop = [l \in Loops |-> InitLoop]
    /\ caller = [c \in Callers |-> InitCaller]
    /\ provider = "working"
    /\ event = NoEvent
    /\ singleton = InitSingleton
    /\ composite = [t \in Fetchers |-> InitComposite]

\* The operations in progress: the frame of a finished one is gone.
curf == [u \in Fetchers |-> IF fetch[u].pc = "done" THEN InitFetchOp ELSE fetch[u]]

FetchDone(f, res) == [f EXCEPT !.pc = "done", !.result = res, !.value = NoValue]

\* No request takes a step: the frames of the finished ones are gone.
NoRequestStep ==
    /\ req' = cur
    /\ UNCHANGED <<rate_limiter, sem_value, waiters, window_calls>>

\* An operation is called: it awaits cache_manager.get(cache_key).
Call(t, p) ==
    /\ curf[t].pc = "idle"
    /\ req[t].pc \in {"idle", "done"}
    /\ fetch' = [curf EXCEPT ![t] = [InitFetchOp EXCEPT !.pc = "get", !.p = p]]
    /\ UNCHANGED <<cache, operation>> /\ NoRequestStep

\* Variant: whatever the request ended with is stored.
AfterRequest_StoreAlways(f, r) ==
    {[f EXCEPT !.requested = TRUE, !.pc = "set", !.value = Transform(operation, f.p, 1)]}

\* _make_api_request has returned or raised in this step: the operation goes
\* on to build its value and awaits cache_manager.set, or ends.
AfterRequest(f, r) ==
    LET g == [f EXCEPT !.requested = TRUE]
    IN IF r.result.kind = "ok"
       THEN {IF Transform(operation, f.p, items) = NoValue
             THEN FetchDone(g, Returned(NoValue))
             ELSE [g EXCEPT !.pc = "set", !.value = Transform(operation, f.p, items)]
             : items \in 0..1}
       ELSE IF r.result = CancelledError THEN {FetchDone(g, Raised(r.result))}
       ELSE {FetchDone(g, OnException(operation, r.result))}

\* A step of the request of operation t, and what the operation does if the
\* request ended in it.
Continue(t) ==
    IF req'[t].pc = "done"
    THEN \E g \in AfterRequest(curf[t], req'[t]) : fetch' = [curf EXCEPT ![t] = g]
    ELSE fetch' = curf

\* cache_manager.get returns or raises.  On a hit the operation returns the
\* cached value; on a miss it calls _make_api_request.
GetReturn(t, available) ==
    /\ curf[t].pc = "get"
    /\ IF ~available
       THEN /\ fetch' = [curf EXCEPT ![t] = FetchDone(@, Raised(CacheError))]
            /\ UNCHANGED <<cache, operation>> /\ NoRequestStep
       ELSE LET v == cache[CacheKey(operation, curf[t].p)]
            IN IF IsHit(v)
               THEN /\ fetch' = [curf EXCEPT ![t] = FetchDone([@ EXCEPT !.hit = TRUE],
                                                              Returned(v))]
                    /\ UNCHANGED <<cache, operation>> /\ NoRequestStep
               ELSE /\ Invoke(t)
                    /\ \E g \in (IF req'[t].pc = "done"
                                  THEN AfterRequest(curf[t], req'[t])
                                  ELSE {[curf[t] EXCEPT !.pc = "request",
                                                        !.requested = TRUE]}) :
                          fetch' = [curf EXCEPT ![t] = g]
                    /\ UNCHANGED <<cache, operation>>

\* The request of an operation takes a step.
RequestStep(t) ==
    /\ curf[t].pc = "request"
    /\ Step(t)
    /\ Continue(t)
    /\ UNCHANGED <<cache, operation>>

\* cache_manager.set returns or raises.
SetReturn(t, available) ==
    /\ curf[t].pc = "set"
    /\ IF available
       THEN /\ cache' = [cache EXCEPT ![CacheKey(operation, curf[t].p)] = curf[t].value]
            /\ fetch' = [curf EXCEPT ![t] = FetchDone(@, Returned(@.value))]
       ELSE /\ fetch' = [curf EXCEPT ![t] = FetchDone(@, OnException(operation, CacheError))]
            /\ UNCHANGED cache
    /\ UNCHANGED operation
    /\ NoRequestStep

FetchNext ==
    \/ \E t \in Fetchers, p \in Params : Call(t, p) /\ UNCHANGED <<batch, keygen, tvars, composite>>
    \/ \E t \in Fetchers, available \in BOOLEAN : GetReturn(t, available) /\ UNCHANGED <<batch, keygen, tvars, composite>>
    \/ \E t \in Fetchers : RequestStep(t) /\ UNCHANGED <<batch, keygen, tvars, composite>>
    \/ \E t \in Fetchers, available \in BOOLEAN : SetReturn(t, available) /\ UNCHANGED <<batch, keygen, tvars, composite>>
    \* the clock advances while operations are in progress
    \/ Tick /\ fetch' = curf /\ UNCHANGED <<cache, operation, batch, keygen, tvars, composite>>

\* The fetch operations, each calling _make_api_request on a cache miss.
FetchSpec == FetchInit /\ [][FetchNext]_allvars

\* ------------------------------------------- fetch_multiple_leagues_data

\* The state after construction, for runs of fetch_multiple_leagues_data,
\* whose tasks call get_available_players.
BatchInit ==
    /\ rate_limiter = [requests_made |-> 0, elapsed |-> 0]
    /\ sem_value = max_workers
    /\ waiters = <<>>
    /\ req = [t \in Requests |-> InitReq]
    /\ window_calls = 0
    /\ cache = [k \in Keys |-> NoValue]
    /\ fetch = [t \in Fetchers |-> InitFetchOp]
    /\ operation = "get_available_players"
    /\ batch = InitBatch
    /\ keygen = InitKeygen
    /\ manager = InitManager
    /\ yahoo_auth = InitAuth
    /\ storage = InitStorage
    /\ loop = [l \in Loops |-> InitLoop]
    /\ caller = [c \in Callers |-> InitCaller]
    /\ provider = "working"
    /\ event = NoEvent
    /\ singleton = InitSingleton
    /\ composite = [t \in Fetchers |-> InitComposite]

\* The batch in progress: the frame of a finished one is gone.
curb == IF batch.pc = "done" THEN InitBatch ELSE batch

Ended(c) == c.state \in {"none", "done", "cancelled"}

AllEnded(b) == \A l \in Leagues : Ended(b.child[l])

\* No fetch operation takes a step.
NoFetchStep ==
    /\ fetch' = curf
    /\ UNCHANGED <<cache, operation>>
    /\ NoRequestStep

\* fetch_multiple_leagues_data is called: one task per league key is created
\* and the call awaits wait_for(gather(...), timeout).
BatchCall(keys, dts) ==
    /\ curb.pc = "idle"
    /\ batch' = [InitBatch EXCEPT
                    !.pc = "waiting",
                    !.league_keys = keys,
                    !.data_types = dts,
                    !.timer = Ticks(async_timeout_seconds * Cardinality(keys)),
                    !.child = [l \in Leagues |->
                                 IF l \in keys THEN Child("created", NoValue)
                                 ELSE Child("none", NoValue)]]
    /\ NoFetchStep

\* Variant: an exception of a league's fetch leaves _fetch_league_data and
\* gather, and ends the batch.
OnChildEnd_Unwind(b, l, res) ==
    IF res.kind = "return"
    THEN [b EXCEPT !.child[l] = Child("done", Entry(l, res.value))]
    ELSE [b EXCEPT !.pc = "done", !.result = res]

\* _fetch_league_data of league l ends with the outcome res of its
\* get_available_players: an exception is caught and marked in league_data
\* (lines 818-820); CancelledError is not an Exception and cancels the task.
OnChildEnd(b, l, res) ==
    IF res.kind = "return"
    THEN [b EXCEPT !.child[l] = Child("done", Entry(l, res.value))]
    ELSE IF res.value = CancelledError
    THEN [b EXCEPT !.child[l] = Child("cancelled", NoValue)]
    ELSE [b EXCEPT !.child[l] = Child("done", Entry(l, ErrorMark(res.value)))]

\* The task of league l starts: _fetch_league_data runs up to its first
\* await, or to its end when no data type fetches.
ChildStart(l) ==
    /\ batch.pc = "waiting"
    /\ batch.child[l].state = "created"
    /\ IF Fetches(batch.data_types)
       THEN /\ Call(l, l)
            /\ batch' = [batch EXCEPT !.child[l] = Child("running", NoValue)]
       ELSE /\ batch' = [batch EXCEPT !.child[l] = Child("done", Entry(l, NoValue))]
            /\ NoFetchStep

\* get_available_players of league l takes a step.
ChildStep(l) ==
    /\ batch.pc = "waiting"
    /\ batch.child[l].state = "running"
    /\ \/ \E available \in BOOLEAN : GetReturn(l, available)
       \/ RequestStep(l)
       \/ \E available \in BOOLEAN : SetReturn(l, available)
    /\ batch' = IF fetch'[l].pc = "done"
                THEN OnChildEnd(batch, l, fetch'[l].result)
                ELSE batch

\* gather has the results of all tasks: the mapping is built and returned.
BatchReturn ==
    /\ batch.pc = "waiting"
    /\ AllEnded(batch)
    /\ batch' = [batch EXCEPT
                    !.pc = "done",
                    !.result = Returned([l \in batch.league_keys |-> batch.child[l].entry])]
    /\ NoFetchStep

\* Variant: the timeout is raised and the tasks are left as they are.
OnTimeout_Abandon(b) == [b EXCEPT !.pc = "done", !.result = Raised(TimeoutError)]

\* wait_for at its timeout cancels gather, which cancels the tasks that have
\* not ended, and waits for them.
OnTimeout(b) == [b EXCEPT !.pc = "cancelling"]

\* The timeout elapses with a task that has not ended.
BatchTimeout ==
    /\ batch.pc = "waiting"
    /\ batch.timer = 0
    /\ ~AllEnded(batch)
    /\ batch' = OnTimeout(batch)
    /\ NoFetchStep

\* The task of league l receives CancelledError where it is suspended.
ChildCancel(l) ==
    /\ batch.pc = "cancelling"
    /\ ~Ended(batch.child[l])
    /\ batch' = [batch EXCEPT !.child[l] = Child("cancelled", NoValue)]
    /\ IF batch.child[l].state = "created"
       THEN NoFetchStep
       ELSE IF fetch[l].pc = "request"
       THEN /\ Cancel(l)
            /\ Continue(l)
            /\ UNCHANGED <<cache, operation>>
       ELSE /\ fetch' = [curf EXCEPT ![l] = FetchDone(@, Raised(CancelledError))]
            /\ UNCHANGED <<cache, operation>>
            /\ NoRequestStep

\* The cancelled tasks have ended: wait_for raises TimeoutError.
BatchRaise ==
    /\ batch.pc = "cancelling"
    /\ AllEnded(batch)
    /\ batch' = [batch EXCEPT !.pc = "done", !.result = Raised(TimeoutError)]
    /\ NoFetchStep

\* The clock advances, unless a timeout is due or being served.
BatchTick ==
    /\ curb.pc = "waiting" => curb.timer > 0
    /\ curb.pc # "cancelling"
    /\ Tick
    /\ fetch' = curf
    /\ batch' = [curb EXCEPT !.timer = IF @ > 0 THEN @ - 1 ELSE 0]
    /\ UNCHANGED <<cache, operation>>

BatchNext ==
    \/ \E keys \in SUBSET Leagues, dts \in {<<"roster", "standings">>, <<"available_players">>} :
          BatchCall(keys, dts) /\ UNCHANGED <<keygen, tvars, composite>>
    \/ \E l \in Leagues : ChildStart(l) /\ UNCHANGED <<keygen, tvars, composite>>
    \/ \E l \in Leagues : ChildStep(l) /\ UNCHANGED <<keygen, tvars, composite>>
    \/ BatchReturn /\ UNCHANGED <<keygen, tvars, composite>>
    \/ BatchTimeout /\ UNCHANGED <<keygen, tvars, composite>>
    \/ \E l \in Leagues : ChildCancel(l) /\ UNCHANGED <<keygen, tvars, composite>>
    \/ BatchRaise /\ UNCHANGED <<keygen, tvars, composite>>
    \/ BatchTick /\ UNCHANGED <<keygen, tvars, composite>>

\* Batch fetches, one at a time, with the fetches of their leagues.
BatchSpec == BatchInit /\ [][BatchNext]_allvars

\* ----------------------------------------------------- _generate_cache_key
\* Strings are sequences of code points.  A parameter map is the sequence of
\* its (name, value) items in insertion order, as a Python dict keeps them.

\* The insertion orders of the map d.
Orders(d) ==
    {q \in [1..Len(d) -> {d[i] : i \in 1..Len(d)}] :
        \A i, j \in 1..Len(d) : i # j => q[i] # q[j]}

\* a < b for Python strings: by code point, a proper prefix first.
RECURSIVE StrLess(_, _)
StrLess(a, b) ==
    IF b = <<>> THEN FALSE
    ELSE IF a = <<>> THEN TRUE
    ELSE IF Head(a) # Head(b) THEN Head(a) < Head(b)
    ELSE StrLess(Tail(a), Tail(b))

RECURSIVE Insert(_, _)
Insert(x, s) ==
    IF s = <<>> THEN <<x>>
    ELSE IF StrLess(x[1], Head(s)[1]) THEN <<x>> \o s
    ELSE <<Head(s)>> \o Insert(x, Tail(s))

\* sorted(params.items()) (1139): the names of a dict differ, so the order of
\* the items is the order of their names.
sorted_NoSort(items) == items

RECURSIVE sorted(_)
sorted(items) ==
    IF items = <<>> THEN <<>> ELSE Insert(Head(items), sorted(Tail(items)))

\* "&".join([f"{k}={v}" for k, v in sorted_params]) (1140).
RECURSIVE Join(_)
Join(items) ==
    IF items = <<>> THEN <<>>
    ELSE Head(items)[1] \o <<61>> \o Head(items)[2].text \o
         (IF Tail(items) = <<>> THEN <<>> ELSE <<38>> \o Join(Tail(items)))

\* hashlib.md5(...).hexdigest() (1144): a digest of the bytes, 16 bits wide here.
RECURSIVE Digest(_, _)
Digest(h, s) ==
    IF s = <<>> THEN h ELSE Digest((h * 31 + Head(s)) % 65536, Tail(s))

md5(s) == Digest(7, s)

\* _generate_cache_key (1136-1144).
generate_cache_key(endpoint, params) ==
    md5(endpoint \o <<63>> \o Join(sorted(params)))

\* An endpoint and a parameter map, before any key is generated.
KeyInit ==
    /\ rate_limiter = [requests_made |-> 0, elapsed |-> 0]
    /\ sem_value = max_workers
    /\ waiters = <<>>
    /\ req = [t \in Requests |-> InitReq]
    /\ window_calls = 0
    /\ cache = [k \in Keys |-> NoValue]
    /\ fetch = [t \in Fetchers |-> InitFetchOp]
    /\ operation = "None"
    /\ batch = InitBatch
    /\ keygen \in
          [endpoint : {<<108>>, <<116>>},                  \* "l", "t"
           params :
              \* names "a", "b", "ab"; values with the text str() gives
              \* them: the int 1, the str "1", the int 12
              UNION {{d \in [1..n -> {<<97>>, <<98>>, <<97, 98>>}
                                      \X {[type |-> "int", text |-> <<49>>],
                                          [type |-> "str", text |-> <<49>>],
                                          [type |-> "int", text |-> <<49, 50>>]}] :
                        \A i, j \in 1..n : i # j => d[i][1] # d[j][1]} :
                     n \in 0..MaxDictLen},
           key : {-1}, calls : {0}]
    /\ manager = InitManager
    /\ yahoo_auth = InitAuth
    /\ storage = InitStorage
    /\ loop = [l \in Loops |-> InitLoop]
    /\ caller = [c \in Callers |-> InitCaller]
    /\ provider = "working"
    /\ event = NoEvent
    /\ singleton = InitSingleton
    /\ composite = [t \in Fetchers |-> InitComposite]

\* _generate_cache_key is called with the endpoint and the map.
Generate ==
    /\ keygen.calls < MaxCalls
    /\ keygen' = [keygen EXCEPT !.key = generate_cache_key(keygen.endpoint, keygen.params),
                                !.calls = @ + 1]

\* The same map is built again, its items inserted in the order q, and
\* _generate_cache_key is called with it.
Reinsert(q) ==
    /\ keygen.calls < MaxCalls
    /\ q # keygen.params
    /\ keygen' = [keygen EXCEPT !.params = q,
                                !.key = generate_cache_key(keygen.endpoint, q),
                                !.calls = @ + 1]

KeyNext ==
    \/ Generate /\ UNCHANGED <<vars, fvars, batch, tvars, composite>>
    \/ \E q \in Orders(keygen.params) : Reinsert(q) /\ UNCHANGED <<vars, fvars, batch, tvars, composite>>

\* Calls of _generate_cache_key for one endpoint and one parameter map.
KeySpec == KeyInit /\ [][KeyNext]_allvars

\* What is stored when the manager is built: nothing, Credentials in the
\* environment, Credentials in the token file only, or Credentials in the
\* environment and in the launcher configuration.  expires_at - now of
\* Credentials found in the environment is YAHOO_TOKEN_TIME + 3600 - now:
\* expired, five minutes, or a second more than the refresh buffer.
Storages ==
    {[InitStorage EXCEPT !.env = e] :
        e \in {NoTokens} \cup {Tokens(0, ttl) : ttl \in {0, 300, refresh_threshold + 1}}}
    \cup {[InitStorage EXCEPT !.token_file = Tokens(0, refresh_threshold + 1)]}
    \cup {[InitStorage EXCEPT !.env = Tokens(0, 300), !.config = Config(0)]}

\* The state after construction, with the Credentials the environment and
\* the token file hold and the state of the refresh capability.
TokenInit ==
    /\ rate_limiter = [requests_made |-> 0, elapsed |-> 0]
    /\ sem_value = max_workers
    /\ waiters = <<>>
    /\ req = [t \in Requests |-> InitReq]
    /\ window_calls = 0
    /\ cache = [k \in Keys |-> NoValue]
    /\ fetch = [t \in Fetchers |-> InitFetchOp]
    /\ operation = "None"
    /\ batch = InitBatch
    /\ keygen = InitKeygen
    /\ manager = InitManager
    /\ yahoo_auth = InitAuth
    /\ storage \in Storages
    /\ loop = [l \in Loops |-> InitLoop]
    /\ caller = [c \in Callers |-> InitCaller]
    /\ provider \in ProviderStates
    /\ event = NoEvent
    /\ singleton = InitSingleton
    /\ composite = [t \in Fetchers |-> InitComposite]

\* _should_refresh_token (223-242).
should_refresh_token_Never(tokens) == FALSE

should_refresh_token_Strict(tokens) ==
    tokens # NoTokens /\ tokens.ttl < refresh_threshold

should_refresh_token(tokens) ==
    tokens # NoTokens /\ tokens.ttl <= refresh_threshold

\* _load_tokens_from_env (181-221): the Credentials of the environment, if it
\* has any, with the auth state their expiry gives.
load_tokens_from_env(ya, env) ==
    IF env.access_token = -1 \/ env.refresh_token = -1 THEN ya
    ELSE [tokens |-> env,
          auth_state |-> IF env.ttl > 0 THEN "AUTHENTICATED" ELSE "TOKEN_EXPIRED"]

\* yahoo_auth._load_tokens (126): Credentials are loaded from the token file
\* if none are held in memory.
load_tokens(ya, file) ==
    IF ya.tokens # NoTokens \/ file = NoTokens THEN ya
    ELSE [tokens |-> file, auth_state |-> "AUTHENTICATED"]

\* The Credentials held once check-and-refresh has loaded them (120-126).
Loaded ==
    load_tokens(IF yahoo_auth.tokens = NoTokens
                THEN load_tokens_from_env(yahoo_auth, storage.env)
                ELSE yahoo_auth,
                storage.token_file)

\* What check-and-refresh decides, up to its first suspension (128-136).
Decision_GiveUp ==
    IF Loaded.tokens = NoTokens THEN "no_tokens"
    ELSE IF should_refresh_token(Loaded.tokens) /\ manager.last_error = "None"
         THEN "refresh" ELSE "valid"

Decision ==
    IF Loaded.tokens = NoTokens THEN "no_tokens"
    ELSE IF should_refresh_token(Loaded.tokens) THEN "refresh" ELSE "valid"

AfterLoad_Silent(m) == m

\* The manager after that part of check-and-refresh, entered with fields m.
AfterLoad(m) ==
    IF Decision = "no_tokens" THEN [m EXCEPT !.last_error = "No tokens found"] ELSE m

\* What check-and-refresh returns without suspending (131, 174).
CheckResult ==
    CASE Decision = "no_tokens" -> "False"
      [] Decision = "valid" -> "True"
      [] OTHER -> "none"

\* yahoo_auth.refresh_tokens (141): new Credentials numbered n on success;
\* on failure the Credentials stay and the auth state tells a transient
\* failure from a revoked grant.
refresh_tokens(ya, n) ==
    CASE provider = "working" ->
             [tokens |-> Tokens(n, expires_in), auth_state |-> "AUTHENTICATED"]
      [] provider = "failing" -> [ya EXCEPT !.auth_state = "TOKEN_EXPIRED"]
      [] OTHER -> [ya EXCEPT !.auth_state = "REFRESH_FAILED"]

\* The number of set_key calls of _update_env_file that succeed before one
\* raises; all three of them in the end.
WriteOutcomes == 0..3

\* _update_env_file (244-265): the file gets the access token, the refresh
\* token and the time of the write, key by key, until a write fails, which is
\* logged and nothing more.
update_env_file(st, tokens, written) ==
    [st EXCEPT !.env =
        [access_token |-> IF written >= 1 THEN tokens.access_token ELSE @.access_token,
         refresh_token |-> IF written >= 2 THEN tokens.refresh_token ELSE @.refresh_token,
         ttl |-> IF written = 3 THEN token_lifetime ELSE @.ttl],
               !.faults = IF written = 3 THEN @ ELSE @ + 1]

\* _update_claude_config (267-300): the tokens are written into the entry of
\* this server if the file has one; a failure is logged and nothing more.
update_claude_config(st, tokens, mirrored) ==
    IF st.config.exists /\ mirrored
    THEN [st EXCEPT !.config = Config(tokens.access_token)]
    ELSE st

\* Whether _update_claude_config raises to its caller when its write fails:
\* its except clause (299-300) logs the error and returns.
MirrorRaises_Propagated(st, mirrored) == st.config.exists /\ ~mirrored

MirrorRaises(st, mirrored) == FALSE

\* Update tracking (149-152).
OnRefreshed(m) ==
    [m EXCEPT !.last_refresh_time = 0, !.refresh_count = @ + 1, !.last_error = "None"]

\* except Exception as e (159-168).
OnRefreshError_Counted(m) ==
    [m EXCEPT !.refresh_count = @ + 1, !.last_error = "Refresh failed"]

OnRefreshError(m) ==
    [m EXCEPT !.last_error =
        IF provider = "revoked"
        THEN "Refresh token expired - manual auth required"
        ELSE "Refresh failed"]

\* check-and-refresh resumes in operation op of caller or loop id: the
\* refresh call returns or raises (141-168).
RefreshReturn(op, id, written, mirrored) ==
    /\ provider = "working" => manager.refresh_count < MaxRefreshes
    /\ mirrored => storage.config.exists
    /\ (provider = "working" /\ written < 3) => storage.faults < MaxWriteFaults
    /\ yahoo_auth' = refresh_tokens(yahoo_auth, manager.refresh_count + 1)
    /\ IF provider = "working"
       THEN /\ storage' = update_claude_config(
                              update_env_file(storage, yahoo_auth'.tokens, written),
                              yahoo_auth'.tokens, mirrored)
            /\ manager' = IF MirrorRaises(storage, mirrored)
                           THEN OnRefreshError(manager) ELSE OnRefreshed(manager)
            /\ event' = [Event(op, id, "resume", "none", "ok", written,
                               IF MirrorRaises(storage, mirrored) THEN "False" ELSE "True")
                            EXCEPT !.mirror = IF ~storage.config.exists THEN "skipped"
                                                  ELSE IF mirrored THEN "ok" ELSE "failed"]
       ELSE /\ written = 0 /\ ~mirrored
            /\ storage' = storage
            /\ manager' = OnRefreshError(manager)
            /\ event' = Event(op, id, "resume", "none", "error", 0, "False")

\* if self._running (63).
AlreadyRunning_Never(m) == FALSE

AlreadyRunning(m) == m.running

\* start (61-76), up to the first suspension of its check-and-refresh,
\* called by caller c directly (op "start") or through
\* get_auto_token_manager (op "get").
StartCall(c, op) ==
    /\ caller[c].pc = "idle"
    /\ UNCHANGED <<storage, provider>>
    /\ IF AlreadyRunning(manager)
       THEN /\ event' = Event(op, c, "call", "none", "none", 0, "noop")
            /\ UNCHANGED <<manager, yahoo_auth, loop, caller>>
       ELSE \E l \in Loops :
              /\ loop[l].pc = "none"
              /\ \A k \in Loops : k < l => loop[k].pc # "none"
              /\ loop' = [loop EXCEPT ![l] = [InitLoop EXCEPT !.pc = "created"]]
              /\ manager' = AfterLoad([manager EXCEPT !.running = TRUE,
                                                       !.background_task = l])
              /\ yahoo_auth' = Loaded
              /\ caller' = IF Decision = "refresh"
                           THEN [caller EXCEPT ![c] =
                                   [pc |-> "refreshing", op |-> op, task |-> 0]]
                           ELSE caller
              /\ event' = Event(op, c, "call", Decision, "none", 0, CheckResult)

start(c) == StartCall(c, "start")

\* force_refresh (302-310), up to the first suspension.
force_refresh(c) ==
    /\ caller[c].pc = "idle"
    /\ UNCHANGED <<storage, provider, loop>>
    /\ manager' = AfterLoad(manager)
    /\ yahoo_auth' = Loaded
    /\ caller' = IF Decision = "refresh"
                 THEN [caller EXCEPT ![c] =
                         [pc |-> "refreshing", op |-> "force_refresh", task |-> 0]]
                 ELSE caller
    /\ event' = Event("force_refresh", c, "call", Decision, "none", 0, CheckResult)

\* start or force_refresh resumes: its refresh call ends, and it returns.
CallerRefreshReturn(c, written, mirrored) ==
    /\ caller[c].pc = "refreshing"
    /\ RefreshReturn(caller[c].op, c, written, mirrored)
    /\ caller' = [caller EXCEPT ![c] = InitCaller]
    /\ UNCHANGED <<loop, provider>>

\* stop (78-91), up to "await self._background_task".
stop(c) ==
    /\ caller[c].pc = "idle"
    /\ UNCHANGED <<yahoo_auth, storage, provider>>
    /\ IF ~manager.running
       THEN /\ event' = Event("stop", c, "call", "none", "none", 0, "noop")
            /\ UNCHANGED <<manager, loop, caller>>
       ELSE LET l == manager.background_task
            IN /\ manager' = [manager EXCEPT !.running = FALSE]
               /\ loop' = IF l # 0 /\ loop[l].pc # "done"
                          THEN [loop EXCEPT ![l].cancel = TRUE] ELSE loop
               /\ caller' = [caller EXCEPT ![c] =
                               [pc |-> "waiting", op |-> "stop", task |-> l]]
               /\ event' = Event("stop", c, "call", "none", "none", 0, "none")

\* await self._background_task (89) completes.
TaskDone_Always(l) == TRUE

TaskDone(l) == l = 0 \/ loop[l].pc = "done"

\* stop resumes and returns (89-93); the finished task is dropped.
StopReturn(c) ==
    /\ caller[c].pc = "waiting"
    /\ TaskDone(caller[c].task)
    /\ caller' = [caller EXCEPT ![c] = InitCaller]
    /\ loop' = [l \in Loops |->
                  IF l = caller[c].task /\ loop[l].pc = "done" THEN InitLoop ELSE loop[l]]
    /\ event' = Event("stop", c, "resume", "none", "none", 0, "none")
    /\ UNCHANGED <<manager, yahoo_auth, storage, provider>>

\* Loop l at "for _ in range(self.check_interval_seconds)" (102-105) with i
\* sleeps done: the next sleep, or the end of the loop if stop() was called.
Sleep(l, i) ==
    IF manager.running
    THEN [pc |-> "sleeping", i |-> i + 1, sleep_left |-> 1, cancel |-> FALSE]
    ELSE [InitLoop EXCEPT !.pc = "done"]

\* Loop l at "while self._running" (98-99): a check-and-refresh up to its
\* first suspension, then the first sleep.
Cycle(l) ==
    /\ UNCHANGED <<storage, provider, caller>>
    /\ IF manager.running
       THEN /\ manager' = AfterLoad(manager)
            /\ yahoo_auth' = Loaded
            /\ loop' = [loop EXCEPT ![l] =
                          IF Decision = "refresh"
                          THEN [InitLoop EXCEPT !.pc = "refreshing"]
                          ELSE Sleep(l, 0)]
            /\ event' = Event("loop", l, "call", Decision, "none", 0, CheckResult)
       ELSE /\ loop' = [loop EXCEPT ![l] = [InitLoop EXCEPT !.pc = "done"]]
            /\ event' = Event("loop", l, "end", "none", "none", 0, "none")
            /\ UNCHANGED <<manager, yahoo_auth>>

\* The task of loop l runs for the first time.
LoopStart(l) ==
    /\ loop[l].pc = "created" /\ ~loop[l].cancel
    /\ Cycle(l)

\* The refresh call of loop l ends; the loop goes on to its first sleep.
LoopRefreshReturn(l, written, mirrored) ==
    /\ loop[l].pc = "refreshing" /\ ~loop[l].cancel
    /\ RefreshReturn("loop", l, written, mirrored)
    /\ loop' = [loop EXCEPT ![l] = Sleep(l, 0)]
    /\ UNCHANGED <<caller, provider>>

\* asyncio.sleep(1) of loop l ends (105): the next sleep or the next cycle.
LoopWake(l) ==
    /\ loop[l].pc = "sleeping" /\ loop[l].sleep_left = 0 /\ ~loop[l].cancel
    /\ IF loop[l].i < check_interval_seconds
       THEN /\ loop' = [loop EXCEPT ![l] = Sleep(l, loop[l].i)]
            /\ event' = Event("loop", l, IF manager.running THEN "sleep" ELSE "end",
                              "none", "none", 0, "none")
            /\ UNCHANGED <<manager, yahoo_auth, storage, provider, caller>>
       ELSE Cycle(l)

\* Cancellation requested by stop() (87).
Alive(l) == loop[l].pc \in {"created", "refreshing", "sleeping"}

\* The cancelled task of loop l runs: CancelledError is raised at its
\* suspension point and caught at line 107; a task that had not started never
\* runs.
LoopCancel(l) ==
    /\ Alive(l) /\ loop[l].cancel
    /\ loop' = [loop EXCEPT ![l] = [InitLoop EXCEPT !.pc = "done"]]
    /\ event' = Event("loop", l, "cancel", "none", "none", 0, "none")
    /\ UNCHANGED <<manager, yahoo_auth, storage, provider, caller>>

\* One second passes, once every coroutine that can run has run.
TokenTick ==
    /\ \A l \in Loops :
          /\ loop[l].pc = "sleeping" => loop[l].sleep_left > 0
          /\ loop[l].pc # "created"
          /\ ~(Alive(l) /\ loop[l].cancel)
    /\ \A c \in Callers : caller[c].pc = "waiting" => ~TaskDone(caller[c].task)
    /\ loop' = [l \in Loops |-> [loop[l] EXCEPT !.sleep_left = IF @ > 0 THEN @ - 1 ELSE 0]]
    /\ yahoo_auth' = [yahoo_auth EXCEPT !.tokens.ttl = Age(@)]
    /\ storage' = [storage EXCEPT !.env.ttl = Age(@), !.token_file.ttl = Age(@)]
    /\ manager' = [manager EXCEPT !.last_refresh_time = IF @ = 0 THEN 1 ELSE @]
    /\ event' = Event("tick", 0, "none", "none", "none", 0, "none")
    /\ UNCHANGED <<provider, caller>>

\* The refresh capability recovers from failing, or the grant it worked with
\* is revoked.
ProviderChange(p) ==
    /\ \/ provider = "failing" /\ p = "working"
       \/ provider = "working" /\ p = "revoked"
    /\ provider' = p
    /\ event' = NoEvent
    /\ UNCHANGED <<manager, yahoo_auth, storage, loop, caller>>

TokenNext ==
    \/ \E c \in Callers : start(c) /\ UNCHANGED <<vars, fvars, batch, keygen, singleton, composite>>
    \/ \E c \in Callers : force_refresh(c) /\ UNCHANGED <<vars, fvars, batch, keygen, singleton, composite>>
    \/ \E c \in Callers, written \in WriteOutcomes, mirrored \in BOOLEAN :
          CallerRefreshReturn(c, written, mirrored) /\ UNCHANGED <<vars, fvars, batch, keygen, singleton, composite>>
    \/ \E c \in Callers : stop(c) /\ UNCHANGED <<vars, fvars, batch, keygen, singleton, composite>>
    \/ \E c \in Callers : StopReturn(c) /\ UNCHANGED <<vars, fvars, batch, keygen, singleton, composite>>
    \/ \E l \in Loops : LoopStart(l) /\ UNCHANGED <<vars, fvars, batch, keygen, singleton, composite>>
    \/ \E l \in Loops, written \in WriteOutcomes, mirrored \in BOOLEAN :
          LoopRefreshReturn(l, written, mirrored) /\ UNCHANGED <<vars, fvars, batch, keygen, singleton, composite>>
    \/ \E l \in Loops : LoopWake(l) /\ UNCHANGED <<vars, fvars, batch, keygen, singleton, composite>>
    \/ \E l \in Loops : LoopCancel(l) /\ UNCHANGED <<vars, fvars, batch, keygen, singleton, composite>>
    \/ TokenTick /\ UNCHANGED <<vars, fvars, batch, keygen, singleton, composite>>
    \/ \E p \in ProviderStates : ProviderChange(p) /\ UNCHANGED <<vars, fvars, batch, keygen, singleton, composite>>

\* The token manager with its callers, its loop and the refresh capability.
TokenSpec == TokenInit /\ [][TokenNext]_allvars

\* The steps of the task of loop l and of the suspended caller c.
LoopStep(l) ==
    LoopStart(l) \/ LoopWake(l) \/ LoopCancel(l)
        \/ \E written \in WriteOutcomes, mirrored \in BOOLEAN :
              LoopRefreshReturn(l, written, mirrored)

CallerStep(c) ==
    StopReturn(c)
        \/ \E written \in WriteOutcomes, mirrored \in BOOLEAN :
              CallerRefreshReturn(c, written, mirrored)

\* The state after construction when the refresh capability is failing; no
\* write of the .env file fails in the runs that start here.
TokenFailingInit ==
    /\ rate_limiter = [requests_made |-> 0, elapsed |-> 0]
    /\ sem_value = max_workers
    /\ waiters = <<>>
    /\ req = [t \in Requests |-> InitReq]
    /\ window_calls = 0
    /\ cache = [k \in Keys |-> NoValue]
    /\ fetch = [t \in Fetchers |-> InitFetchOp]
    /\ operation = "None"
    /\ batch = InitBatch
    /\ keygen = InitKeygen
    /\ manager = InitManager
    /\ yahoo_auth = InitAuth
    /\ storage \in {[st EXCEPT !.faults = MaxWriteFaults] : st \in Storages}
    /\ loop = [l \in Loops |-> InitLoop]
    /\ caller = [c \in Callers |-> InitCaller]
    /\ provider = "failing"
    /\ event = NoEvent
    /\ singleton = InitSingleton
    /\ composite = [t \in Fetchers |-> InitComposite]

\* The runs in which the refresh capability fails at first, under fairness:
\* the event loop runs every task that can run, every refresh call ends and
\* the clock advances.  Callers and the refresh capability are under no
\* obligation.
TokenFairSpec ==
    /\ TokenFailingInit
    /\ [][TokenNext]_allvars
    /\ \A l \in Loops : WF_tvars(LoopStep(l) /\ UNCHANGED singleton)
    /\ \A c \in Callers : WF_tvars(CallerStep(c) /\ UNCHANGED singleton)
    /\ WF_tvars(TokenTick /\ UNCHANGED singleton)

\* if _auto_token_manager is None (370).
IsNone_Always(g) == TRUE

IsNone(g) == ~g.global

\* get_auto_token_manager (358-374), up to the first suspension: the first
\* call builds the manager, stores it in the global and calls start(); a
\* call that finds the global set returns the instance at once.
get_auto_token_manager(c) ==
    /\ caller[c].pc = "idle"
    /\ IF IsNone(singleton)
       THEN /\ singleton' = [global |-> TRUE, constructed |-> singleton.constructed + 1,
                             starts |-> singleton.starts + 1]
            /\ StartCall(c, "get")
       ELSE /\ event' = Event("get", c, "call", "none", "none", 0, "instance")
            /\ UNCHANGED <<manager, yahoo_auth, storage, loop, caller, provider, singleton>>

\* The callers get the manager from get_auto_token_manager and call its
\* operations once it exists.
SingletonNext ==
    \/ \E c \in Callers :
          get_auto_token_manager(c) /\ UNCHANGED <<vars, fvars, batch, keygen, composite>>
    \/ \E c \in Callers :
          singleton.global /\ start(c) /\ UNCHANGED <<vars, fvars, batch, keygen, singleton, composite>>
    \/ \E c \in Callers :
          singleton.global /\ force_refresh(c)
              /\ UNCHANGED <<vars, fvars, batch, keygen, singleton, composite>>
    \/ \E c \in Callers, written \in WriteOutcomes, mirrored \in BOOLEAN :
          CallerRefreshReturn(c, written, mirrored)
              /\ UNCHANGED <<vars, fvars, batch, keygen, singleton, composite>>
    \/ \E c \in Callers :
          singleton.global /\ stop(c) /\ UNCHANGED <<vars, fvars, batch, keygen, singleton, composite>>
    \/ \E c \in Callers : StopReturn(c) /\ UNCHANGED <<vars, fvars, batch, keygen, singleton, composite>>
    \/ \E l \in Loops : LoopStart(l) /\ UNCHANGED <<vars, fvars, batch, keygen, singleton, composite>>
    \/ \E l \in Loops, written \in WriteOutcomes, mirrored \in BOOLEAN :
          LoopRefreshReturn(l, written, mirrored)
              /\ UNCHANGED <<vars, fvars, batch, keygen, singleton, composite>>
    \/ \E l \in Loops : LoopWake(l) /\ UNCHANGED <<vars, fvars, batch, keygen, singleton, composite>>
    \/ \E l \in Loops : LoopCancel(l) /\ UNCHANGED <<vars, fvars, batch, keygen, singleton, composite>>
    \/ TokenTick /\ UNCHANGED <<vars, fvars, batch, keygen, singleton, composite>>
    \/ \E p \in ProviderStates :
          ProviderChange(p) /\ UNCHANGED <<vars, fvars, batch, keygen, singleton, composite>>

\* The process in which the manager is the one of get_auto_token_manager.
SingletonSpec == TokenInit /\ [][SingletonNext]_allvars

\* ------------------------------------ operations that call operations

\* The fetch operations an operation awaits, one after the other.
Stages(op) ==
    CASE op = "get_injury_report" -> <<"get_available_players">>
      [] op = "get_opponent_roster" -> <<"get_roster">>
      [] op = "get_user_team_roster" -> <<"get_league_teams", "get_roster", "get_league_teams">>
      [] OTHER -> <<"get_available_players">>

\* Whether the operation looks up and stores its own cache entry.
OuterCached(op) == op \in {"get_injury_report", "get_opponent_roster"}

\* Variant: the operation runs its body inside "async with self._semaphore".
OuterSlots_One(op) == 1

\* The slots of the gate the operation itself takes for its body: the only
\* "async with self._semaphore" is the one of _make_api_request (869).
OuterSlots(op) == 0

\* The operation has returned ("return") or raised ("raise").
CompDone(f, kind) == [f EXCEPT !.pc = "done", !.result = kind]

\* The operation enters its body: it awaits cache_manager.get of its first
\* fetch operation.
EnterBody(f) == [f EXCEPT !.pc = "inner_get", !.stage = 1, !.held = OuterSlots(f.op)]

\* The fetch operation the operation awaited has returned.
OnInnerOk(f) ==
    IF f.stage < Len(Stages(f.op)) THEN [f EXCEPT !.pc = "inner_get", !.stage = @ + 1]
    ELSE IF OuterCached(f.op) THEN [f EXCEPT !.pc = "outer_set"]
    ELSE CompDone(f, "return")

\* The fetch operation the operation awaited has raised: _fetch_league_data
\* stores the error and returns (819-821), get_user_team_roster goes on
\* without the team name (431-432), the others raise.
OnInnerFail(f) ==
    IF f.op = "_fetch_league_data" THEN CompDone(f, "return")
    ELSE IF f.op = "get_user_team_roster" /\ f.stage = 3 THEN CompDone(f, "return")
    ELSE CompDone(f, "raise")

\* The operations in progress: the frame of a finished one is gone.
curc == [u \in Fetchers |-> IF composite[u].pc = "done" THEN InitComposite ELSE composite[u]]

\* An operation is called.  One with a cache entry of its own awaits the
\* lookup; the others enter their body.  What a lookup finds ("hit", "miss",
\* "error") is open: the cache is shared with every other operation.
CompCall(t, op) ==
    /\ curc[t].pc = "idle"
    /\ cur[t].pc = "idle"
    /\ req' = cur
    /\ UNCHANGED <<rate_limiter, waiters, window_calls>>
    /\ IF OuterCached(op)
       THEN /\ composite' = [curc EXCEPT ![t] = [InitComposite EXCEPT !.pc = "outer_get",
                                                                     !.op = op]]
            /\ UNCHANGED sem_value
       ELSE /\ sem_value >= OuterSlots(op)
            /\ sem_value' = sem_value - OuterSlots(op)
            /\ composite' = [curc EXCEPT ![t] = EnterBody([InitComposite EXCEPT !.op = op])]

\* The lookup of the operation's own entry returns or raises (653, 717).
OuterGetReturn(t, found) ==
    /\ curc[t].pc = "outer_get"
    /\ req' = cur
    /\ UNCHANGED <<rate_limiter, waiters, window_calls>>
    /\ IF found = "miss"
       THEN /\ sem_value >= OuterSlots(curc[t].op)
            /\ sem_value' = sem_value - OuterSlots(curc[t].op)
            /\ composite' = [curc EXCEPT ![t] = EnterBody(@)]
       ELSE /\ composite' = [curc EXCEPT ![t] =
                               CompDone(@, IF found = "hit" THEN "return" ELSE "raise")]
            /\ UNCHANGED sem_value

\* The lookup of the awaited fetch operation returns or raises: on a miss the
\* fetch operation calls _make_api_request.
InnerGetReturn(t, found) ==
    /\ curc[t].pc = "inner_get"
    /\ IF found = "miss"
       THEN /\ Invoke(t)
            /\ composite' = [curc EXCEPT ![t] =
                               IF req'[t].pc # "done" THEN [@ EXCEPT !.pc = "request"]
                               ELSE OnInnerFail(@)]
       ELSE /\ composite' = [curc EXCEPT ![t] =
                               IF found = "hit" THEN OnInnerOk(@) ELSE OnInnerFail(@)]
            /\ NoRequestStep

\* The request of the awaited fetch operation takes a step; when it has
\* returned, the fetch operation awaits cache_manager.set.
CompRequestStep(t) ==
    /\ curc[t].pc = "request"
    /\ Step(t)
    /\ composite' = [curc EXCEPT ![t] =
                       IF req'[t].pc # "done" THEN @
                       ELSE IF req'[t].result.kind = "ok" THEN [@ EXCEPT !.pc = "inner_set"]
                       ELSE OnInnerFail(@)]

\* cache_manager.set of the awaited fetch operation returns or raises.
InnerSetReturn(t, available) ==
    /\ curc[t].pc = "inner_set"
    /\ composite' = [curc EXCEPT ![t] = IF available THEN OnInnerOk(@) ELSE OnInnerFail(@)]
    /\ NoRequestStep

\* cache_manager.set of the operation's own entry returns or raises (683, 731).
OuterSetReturn(t, available) ==
    /\ curc[t].pc = "outer_set"
    /\ composite' = [curc EXCEPT ![t] = CompDone(@, IF available THEN "return" ELSE "raise")]
    /\ NoRequestStep

\* The clock advances while operations are in progress.
CompTick == Tick /\ composite' = curc

\* The state after construction with settings.max_workers = 1.
CompositeInit ==
    /\ rate_limiter = [requests_made |-> 0, elapsed |-> 0]
    /\ sem_value = 1
    /\ waiters = <<>>
    /\ req = [t \in Requests |-> InitReq]
    /\ window_calls = 0
    /\ cache = [k \in Keys |-> NoValue]
    /\ fetch = [t \in Fetchers |-> InitFetchOp]
    /\ operation = "None"
    /\ batch = InitBatch
    /\ keygen = InitKeygen
    /\ manager = InitManager
    /\ yahoo_auth = InitAuth
    /\ storage = InitStorage
    /\ loop = [l \in Loops |-> InitLoop]
    /\ caller = [c \in Callers |-> InitCaller]
    /\ provider = "working"
    /\ event = NoEvent
    /\ singleton = InitSingleton
    /\ composite = [t \in Fetchers |-> InitComposite]

CompositeNext ==
    \/ \E t \in Fetchers, op \in {"get_injury_report", "get_opponent_roster",
                               "get_user_team_roster", "_fetch_league_data"} :
          CompCall(t, op) /\ UNCHANGED <<fvars, batch, keygen, tvars>>
    \/ \E t \in Fetchers, found \in {"hit", "miss", "error"} :
          OuterGetReturn(t, found) /\ UNCHANGED <<fvars, batch, keygen, tvars>>
    \/ \E t \in Fetchers, found \in {"hit", "miss", "error"} :
          InnerGetReturn(t, found) /\ UNCHANGED <<fvars, batch, keygen, tvars>>
    \/ \E t \in Fetchers : CompRequestStep(t) /\ UNCHANGED <<fvars, batch, keygen, tvars>>
    \/ \E t \in Fetchers, available \in BOOLEAN :
          InnerSetReturn(t, available) /\ UNCHANGED <<fvars, batch, keygen, tvars>>
    \/ \E t \in Fetchers, available \in BOOLEAN :
          OuterSetReturn(t, available) /\ UNCHANGED <<fvars, batch, keygen, tvars>>
    \/ CompTick /\ UNCHANGED <<fvars, batch, keygen, tvars>>

\* The steps operation t takes by itself once it has been called.
CompStep(t) ==
    \/ \E found \in {"hit", "miss", "error"} : OuterGetReturn(t, found) \/ InnerGetReturn(t, found)
    \/ CompRequestStep(t)
    \/ \E available \in BOOLEAN : InnerSetReturn(t, available) \/ OuterSetReturn(t, available)

\* The operations that call fetch operations, with a gate of one slot.  The
\* event loop runs every coroutine that can run, every cache and provider
\* call ends and the clock advances; callers are under no obligation.
CompositeSpec ==
    /\ CompositeInit
    /\ [][CompositeNext]_allvars
    /\ \A t \in Fetchers : WF_<<vars, composite>>(CompStep(t))
    /\ WF_<<vars, composite>>(CompTick)

\* -------------------------------------------------------- specifications

\* The request path by itself: _make_api_request called directly.
Spec == Init /\ [][Next]_allvars

\* The event loop runs every coroutine that can run, every provider call ends
\* and the clock advances.  Callers and cancellation are under no obligation.
FairSpec ==
    /\ Spec
    /\ \A t \in Requests : WF_vars(Step(t))
    /\ WF_vars(Tick)

\* ------------------------------------------------------------------ claims

\* Requests that hold a slot of the gate: inside "async with", or handed the
\* slot of a leaving request.
InFlight == {t \in Requests : req[t].pc \in {"woken", "ratewait", "calling", "backoff"}}

Calling == {t \in Requests : req[t].pc = "calling"}

\* The backoff delays of the first n retries.
Delays(n) == [i \in 1..n |-> backoff_factor ^ i]

\* C1: requests_made never exceeds requests_per_window.
C1_RequestsMadeWithinCapacity ==
    rate_limiter.requests_made <= requests_per_window

\* C2: the provider calls issued within one rate window never exceed
\* requests_per_window.
C2_ProviderCallsWithinCapacity ==
    window_calls <= requests_per_window

\* C3: every provider call, the first and every retry, follows an admission
\* check of its own that was granted.
C3_EveryAttemptChecked ==
    \A t \in Requests : req[t].calls > 0 => req[t].call_checked

\* C4: a denied request sleeps min(time_until_reset, 300) and re-checks once;
\* if it is denied again it raises RateLimitError, with no provider call, no
\* record_request and no retry.
C4_DeniedThenRateLimitError ==
    \A t \in Requests :
        /\ req[t].pc = "ratewait" =>
              /\ req[t].checks = 1
              /\ req[t].wait_time > 0
              /\ req[t].rate_sleep = Min(req[t].wait_time, 300)
              /\ req[t].calls = 0 /\ req[t].records = 0
        /\ req[t].result.kind = "RateLimitError" =>
              /\ req[t].pc = "done"
              /\ req[t].checks = 2
              /\ req[t].rate_sleep = Min(req[t].wait_time, 300)
              /\ req[t].calls = 0 /\ req[t].records = 0 /\ req[t].backoffs = <<>>

\* Witness of C4: RateLimitError after a sleep that the cap shortened.
C4_Witness ==
    \E t \in Requests :
        /\ req[t].result.kind = "RateLimitError"
        /\ req[t].wait_time > 300 /\ req[t].rate_sleep = 300

\* C5 as claimed: a call that fails transiently k < max_retries times and then
\* succeeds has called record_request k + 1 times.
C5_RecordedPerAttempt ==
    \A t \in Requests :
        (req[t].result.kind = "ok" /\ req[t].fails < max_retries)
            => req[t].records = req[t].fails + 1

\* C5 as amended: a call that fails transiently k times and then succeeds
\* returns the response of attempt k and has called record_request once, for
\* the attempt that succeeded.
C5_RecordedOnSuccessOnly ==
    \A t \in Requests :
        req[t].result.kind = "ok" =>
            /\ req[t].pc = "done"
            /\ req[t].result = Value("ok", req[t].fails)
            /\ req[t].calls = req[t].fails + 1
            /\ req[t].fails <= max_retries
            /\ req[t].records = 1

\* Witness of C5: success after two transient failures.
C5_Witness ==
    \E t \in Requests : req[t].result.kind = "ok" /\ req[t].fails = 2

\* C6 as claimed: a non-retryable error on the first attempt ends the request
\* at once, with one provider call, no backoff and record_request called once.
C6_FatalRecordedOnce ==
    \A t \in Requests :
        req[t].last_outcome = Value("AuthenticationError", 0) =>
            /\ req[t].result = req[t].last_outcome
            /\ req[t].calls = 1 /\ req[t].backoffs = <<>>
            /\ req[t].records = 1

\* C6 as amended: the same, with record_request not called.
C6_FatalNotRecorded ==
    \A t \in Requests :
        req[t].last_outcome = Value("AuthenticationError", 0) =>
            /\ req[t].pc = "done"
            /\ req[t].result = req[t].last_outcome
            /\ req[t].calls = 1 /\ req[t].backoffs = <<>>
            /\ req[t].records = 0

\* Witness of C6: a request ended by a non-retryable error of its first attempt.
C6_Witness ==
    \E t \in Requests :
        req[t].pc = "done" /\ req[t].result = Value("AuthenticationError", 0)

\* C7: attempt n >= 1 is preceded by a backoff of backoff_factor^n, attempt 0
\* by none; a request whose attempts all fail transiently makes
\* max_retries + 1 provider calls and raises the error of the last one.
C7_RetriesExhausted ==
    \A t \in Requests :
        /\ req[t].pc = "calling" =>
              /\ req[t].calls = req[t].attempt + 1
              /\ req[t].backoffs = Delays(req[t].attempt)
        /\ req[t].pc = "backoff" =>
              /\ req[t].calls = req[t].attempt
              /\ req[t].backoffs = Delays(req[t].attempt)
        /\ req[t].result.kind \in TransientErrors =>
              /\ req[t].pc = "done"
              /\ req[t].calls = max_retries + 1
              /\ req[t].fails = max_retries + 1
              /\ req[t].backoffs = Delays(max_retries)
              /\ req[t].result = Value(req[t].last_outcome.kind, max_retries)

\* Witness of C7: a request that has used up its retries.
C7_Witness ==
    \E t \in Requests :
        req[t].result.kind \in TransientErrors /\ req[t].calls = max_retries + 1

\* C8: at most max_workers provider calls are in flight.
C8_CallsWithinWorkers ==
    Cardinality(Calling) <= max_workers

\* Witness of C8: every slot is calling the provider and a caller is queued.
C8_Witness ==
    Cardinality(Calling) = max_workers /\ waiters # <<>>

\* C9: the slots held are those of the requests in flight; none is held once
\* no request is in flight, whatever way each request ended.
C9_SlotsHeldByInFlight ==
    /\ sem_value \in 0..max_workers
    /\ max_workers - sem_value = Cardinality(InFlight)
    /\ InFlight = {} => sem_value = max_workers /\ waiters = <<>>

\* Witness of C9: a request has just been cancelled while it held a slot that
\* no waiter took over, and the slot is free again.
C9_Witness ==
    \E t \in Requests :
        /\ req[t].result.kind = "CancelledError"
        /\ InFlight = {} /\ sem_value = max_workers

\* C10: under fair scheduling, with provider calls that end, every call of
\* _make_api_request returns or raises, and a caller leaves the gate's queue
\* only with a slot (or cancelled).
C10_EveryRequestCompletes ==
    /\ \A t \in Requests :
          (req[t].pc \in {"queued", "woken", "ratewait", "calling", "backoff"})
              ~> (req[t].pc = "done")
    /\ [][\A t \in Requests :
             (req[t].pc = "queued" /\ req'[t].pc # "queued") =>
                 \/ req'[t].pc = "woken"
                 \/ req'[t].result.kind = "CancelledError"]_vars

\* Witness of C10: a caller queued behind a request in its rate-limit sleep
\* and a request in its backoff sleep.
C10_Witness ==
    \E t, u, w \in Requests :
        /\ req[t].pc = "queued"
        /\ req[u].pc = "ratewait" /\ req[u].sleep_left > 0
        /\ req[w].pc = "backoff"

\* The cache key of the operation of fetcher t.
KeyOf(t) == CacheKey(operation, fetch[t].p)

\* In this step cache_manager.get of fetcher t returned (it did not raise).
GetReturned(t) ==
    /\ fetch[t].pc = "get"
    /\ fetch'[t].pc # "get"
    /\ fetch'[t].result # Raised(CacheError)

\* C11: on a cache hit the operation returns the cached value, with no
\* provider call, no slot of the gate acquired and the rate limiter unchanged.
C11_HitTouchesNothing ==
    [][\A t \in Fetchers :
          (GetReturned(t) /\ cache[KeyOf(t)] # NoValue) =>
              /\ fetch'[t].pc = "done"
              /\ fetch'[t].result = Returned(cache[KeyOf(t)])
              /\ ~fetch'[t].requested
              /\ req'[t].pc = "idle" /\ req'[t].calls = 0
              /\ UNCHANGED <<rate_limiter, sem_value, waiters, window_calls, cache>>
      ]_allvars

\* Witness of C11: an operation has returned a cached empty list.
C11_Witness ==
    \E t \in Fetchers :
        /\ fetch[t].pc = "done" /\ fetch[t].hit
        /\ fetch[t].result = Returned(cache[KeyOf(t)])
        /\ fetch[t].result.value.kind = "list"
        /\ fetch[t].result.value.items = 0

\* C12 as claimed (its last part): after a fetch whose provider call succeeded
\* the entry is in the cache, so that a repeated fetch is a hit.
C12_FetchedIsCached ==
    \A t \in Fetchers :
       (/\ fetch[t].pc = "done" /\ fetch[t].result.kind = "return"
        /\ fetch[t].requested
        /\ \/ fetch[t].result.value # NoValue
           \/ req[t].pc = "done" /\ req[t].result.kind = "ok")
          => cache[KeyOf(t)] # NoValue

\* C12 as amended: the cache is written only by an operation whose provider
\* call returned, with the value built from the response; an operation that
\* raises leaves the entry of its key as it was; an operation that returns a
\* value other than None leaves that value in the cache under its key.
C12_CachedAfterSuccess ==
    /\ [][\A t \in Fetchers :
             /\ (fetch[t].pc # "set" /\ fetch'[t].pc = "set") =>
                    /\ req'[t].pc = "done" /\ req'[t].result.kind = "ok"
                    /\ req'[t].records = 1
                    /\ fetch'[t].value # NoValue
                    /\ cache' = cache
             /\ (fetch[t].pc \in {"get", "request", "set"} /\ fetch'[t].pc = "done"
                    /\ fetch'[t].result.kind = "raise") =>
                    cache'[KeyOf(t)] = cache[KeyOf(t)]
       ]_allvars
    /\ [][cache' # cache =>
             \E t \in Fetchers :
                 /\ fetch[t].pc = "set" /\ fetch[t].requested
                 /\ fetch'[t].pc = "done"
                 /\ fetch'[t].result = Returned(fetch[t].value)
                 /\ cache' = [cache EXCEPT ![KeyOf(t)] = fetch[t].value]
       ]_allvars
    /\ [](\A t \in Fetchers :
             (fetch[t].pc = "done" /\ fetch[t].result.kind = "return"
                 /\ fetch[t].result.value # NoValue) =>
                 cache[KeyOf(t)] = fetch[t].result.value)

\* Witness of C12: an operation has stored and returned what it fetched.
C12_Witness ==
    \E t \in Fetchers :
        /\ fetch[t].pc = "done" /\ fetch[t].requested /\ ~fetch[t].hit
        /\ fetch[t].result.kind = "return" /\ fetch[t].result.value # NoValue
        /\ cache[KeyOf(t)] = fetch[t].result.value

\* Fetchers t and u are two calls in progress with the same operation and
\* parameters, both past a cache lookup that missed.
Duplicates(t, u) ==
    /\ t # u
    /\ fetch[t].pc = "request" /\ fetch[u].pc = "request"
    /\ fetch[t].p = fetch[u].p

Results(k) == {Transform(k[1], k[2], items) : items \in 0..1} \ {NoValue}

C17_CacheFailsOpen ==
    \A t \in Fetchers : fetch[t].pc = "done" => fetch[t].result # Raised(CacheError)

\* C18: an error raised by _make_api_request is raised by the operation.
C18_RequestErrorPropagates ==
    \A t \in Fetchers :
        (fetch[t].pc = "done" /\ req[t].pc = "done" /\ req[t].result.kind # "ok")
            => fetch[t].result = Raised(req[t].result)

\* Request t runs can_make_request in this step.
ChecksAdmission(t) == Invoke(t) \/ Resume(t) \/ WakeRate(t)

\* C19: the window is reset only by can_make_request and only once more than
\* window_seconds have elapsed since window_start; the reset sets
\* requests_made = 0 and window_start = now; no other step moves window_start
\* or lowers requests_made, and window_start never moves backwards.
C19_ResetOnlyWhenExpired ==
    [][/\ (rate_limiter'.elapsed < rate_limiter.elapsed
          \/ rate_limiter'.requests_made < rate_limiter.requests_made) =>
             /\ rate_limiter.elapsed > window_seconds
             /\ rate_limiter' = [requests_made |-> 0, elapsed |-> 0]
             /\ \E t \in Requests : ChecksAdmission(t)
       /\ rate_limiter'.elapsed > rate_limiter.elapsed =>
             /\ Tick
             /\ rate_limiter'.elapsed = rate_limiter.elapsed + SecondsPerTick
       /\ (\E t \in Requests, o \in Outcomes : Return(t, o)) =>
             /\ rate_limiter'.elapsed = rate_limiter.elapsed
             /\ rate_limiter'.requests_made >= rate_limiter.requests_made
      ]_allvars

\* Witness of C19: the window has been reset while a request that had been
\* denied in the window before is still in its rate-limit sleep.
C19_Witness ==
    /\ rate_limiter = [requests_made |-> 0, elapsed |-> 0]
    /\ \E t \in Requests : req[t].pc = "ratewait"

\* C20: whenever can_make_request returns true, requests_made is below
\* requests_per_window at that moment.
C20_AdmittedBelowCapacity ==
    [][\A t \in Requests :
          (ChecksAdmission(t) /\ req'[t].pc = "calling") =>
              rate_limiter'.requests_made < requests_per_window
      ]_allvars

\* Witness of C20: a request admitted while another one, denied, sleeps.
C20_Witness ==
    \E t, u \in Requests :
        /\ req[t].pc = "calling" /\ req[t].attempt = 0 /\ req[t].call_checked
        /\ req[u].pc = "ratewait"

\* In this step get_available_players of league l ends by raising an error.
ChildFails(l) ==
    /\ batch.pc = "waiting"
    /\ batch.child[l].state = "running"
    /\ fetch'[l].pc = "done"
    /\ fetch'[l].result.kind = "raise"

\* C15: a league whose fetch fails gets an entry that carries the mark of the
\* error, the other leagues' tasks go on untouched, and the batch returns one
\* entry per league key, each with that league's data or error mark; the
\* batch itself fails only by its timeout.
C15_FailureStaysInItsEntry ==
    /\ [][\A l \in Leagues :
             ChildFails(l) =>
                 /\ batch'.pc = "waiting"
                 /\ batch'.child[l] =
                        Child("done", Entry(l, ErrorMark(fetch'[l].result.value)))
                 /\ \A k \in Leagues \ {l} :
                        /\ batch'.child[k] = batch.child[k]
                        /\ fetch'[k] = curf[k]
       ]_allvars
    /\ [](batch.pc = "done" =>
             IF batch.result.kind = "return"
             THEN /\ DOMAIN batch.result.value = batch.league_keys
                  /\ \A l \in batch.league_keys :
                        /\ batch.child[l].state = "done"
                        /\ batch.result.value[l] = batch.child[l].entry
                        /\ batch.result.value[l].league_key = l
                        /\ LET d == batch.result.value[l].available_players
                           IN IF Fetches(batch.data_types)
                              THEN \/ d \in Results(CacheKey(operation, l))
                                   \/ d.kind = "error"
                              ELSE d = NoValue
             ELSE batch.result = Raised(TimeoutError))

\* Witness of C15: a batch has returned two entries, one with an error mark
\* and one with the players fetched.
C15_Witness ==
    /\ batch.pc = "done" /\ batch.result.kind = "return"
    /\ \E l, k \in batch.league_keys :
          /\ batch.result.value[l].available_players.kind = "error"
          /\ batch.result.value[k].available_players.kind = "list"

\* C16: one timeout covers the batch; once it has elapsed with a task not
\* ended, no task completes any more, the call ends with TimeoutError and no
\* mapping, and by then no task, fetch or request of the batch is running
\* and no slot of the gate is held.
C16_TimeoutEndsEverything ==
    /\ [][/\ (batch.pc = "waiting" /\ batch'.pc = "cancelling") =>
                 batch.timer = 0 /\ ~AllEnded(batch)
          /\ batch.pc = "cancelling" =>
                 /\ \/ batch'.pc = "cancelling"
                    \/ batch'.pc = "done" /\ batch'.result = Raised(TimeoutError)
                 /\ \A l \in Leagues :
                        \/ batch'.child[l] = batch.child[l]
                        \/ batch'.child[l].state = "cancelled"
       ]_allvars
    /\ [](batch.pc = "waiting" =>
             batch.timer <= Ticks(async_timeout_seconds * Cardinality(batch.league_keys)))
    /\ []((batch.pc = "done" /\ batch.result = Raised(TimeoutError)) =>
             /\ AllEnded(batch)
             /\ \A l \in Leagues :
                    /\ fetch[l].pc \in {"idle", "done"}
                    /\ req[l].pc \in {"idle", "done"}
             /\ sem_value = max_workers /\ waiters = <<>>)

\* Witness of C16: a batch has ended with TimeoutError after one league's
\* task had ended and the other one's was cancelled in its rate-limit sleep.
C16_Witness ==
    /\ batch.pc = "done" /\ batch.result = Raised(TimeoutError)
    /\ \E l, k \in batch.league_keys :
          /\ batch.child[l].state = "done"
          /\ batch.child[k].state = "cancelled"

\* C21: once a key has been generated for an endpoint and a parameter map,
\* _generate_cache_key gives that same key for the endpoint and the map in
\* every insertion order of its parameters, and again when called again.
C21_KeyIgnoresInsertionOrder ==
    keygen.key # -1 =>
        \A q \in Orders(keygen.params) :
            generate_cache_key(keygen.endpoint, q) = keygen.key

\* Witness of C21: the key has been generated twice, the second time for the
\* map of three parameters with its names inserted in descending order.
C21_Witness ==
    /\ keygen.calls = 2 /\ keygen.key # -1
    /\ Len(keygen.params) = 3
    /\ StrLess(keygen.params[3][1], keygen.params[2][1])
    /\ StrLess(keygen.params[2][1], keygen.params[1][1])

\* The loop tasks that stop() has not cancelled.
Current == {l \in Loops : Alive(l) /\ ~loop[l].cancel}

\* The step runs a check-and-refresh of loop l from its start.
LoopChecks(l) == event'.op = "loop" /\ event'.id = l /\ event'.seg = "call"

\* C22 as stated: at most one background loop task is alive at any time.
C22_OneLoopAlive == Cardinality({l \in Loops : Alive(l)}) <= 1

\* C22: at most one loop task that has not been cancelled is alive, and it is
\* the task of a running manager; a loop is launched only by a start() that
\* finds the manager stopped; a cancelled loop does nothing but end; and a
\* loop begins a check-and-refresh only as its task starts or after
\* check_interval_seconds sleeps of its cycle.
C22_OneLoopNotCancelled ==
    /\ [](Cardinality(Current) <= 1)
    /\ [](\A l \in Current : manager.running /\ manager.background_task = l)
    /\ [][\A l \in Loops :
             /\ (loop'[l].pc = "created" /\ loop[l].pc # "created") =>
                    ~manager.running /\ Current = {} /\ event'.op = "start"
             /\ (Alive(l) /\ loop[l].cancel) =>
                    loop'[l] = loop[l] \/ loop'[l].pc = "done"
             /\ LoopChecks(l) =>
                    \/ loop[l].pc = "created"
                    \/ /\ loop[l].pc = "sleeping"
                       /\ loop[l].i = check_interval_seconds
                       /\ loop[l].sleep_left = 0
       ]_allvars

\* Witness of C22: start() has just returned as a no-op while the loop of the
\* running manager is alive and the cancelled loop before it has not ended.
C22_Witness ==
    /\ event.op = "start" /\ event.result = "noop"
    /\ \E l, k \in Loops :
          /\ Alive(l) /\ loop[l].cancel
          /\ Alive(k) /\ ~loop[k].cancel

\* C23: a start() that finds the manager stopped sets the running flag and
\* launches the loop in its first step, and when it returns it has run one
\* check-and-refresh: no Credentials are held, or they expire later than the
\* refresh buffer, or the refresh this start() attempted has failed.
C23_StartChecksBeforeReturn ==
    [][event'.op = "start" /\ event'.result # "noop" =>
         /\ event'.seg = "call" =>
                /\ ~manager.running /\ manager'.running
                /\ manager'.background_task # 0
                /\ loop'[manager'.background_task].pc = "created"
         /\ event'.result \in {"True", "False"} =>
                \/ yahoo_auth'.tokens = NoTokens
                \/ yahoo_auth'.tokens.ttl > refresh_buffer_minutes * 60
                \/ event'.result = "False" /\ event'.refresh = "error"
         /\ event'.result = "none" =>
                \E c \in Callers : caller'[c] =
                    [pc |-> "refreshing", op |-> "start", task |-> 0]
    ]_allvars

\* Witness of C23: start() has returned after its check-and-refresh replaced
\* Credentials that were inside the refresh buffer.
C23_Witness ==
    /\ event.op = "start" /\ event.seg = "resume" /\ event.result = "True"
    /\ yahoo_auth.tokens.ttl = expires_in
    /\ manager.refresh_count = 1

\* The step in which a stop() of caller c returns.
StopReturns(c) ==
    /\ event'.op = "stop" /\ event'.id = c
    /\ event'.seg = "resume" \/ event'.result = "noop"

\* C24 as stated: when stop() returns, the running flag is false and no loop
\* task is alive.
C24_StopLeavesNothingRunning ==
    [][\A c \in Callers :
         StopReturns(c) => ~manager'.running /\ \A l \in Loops : loop'[l].pc \notin
                                                 {"created", "refreshing", "sleeping"}
    ]_allvars

\* C24: a stop() that finds the flag false changes nothing; a stop() that
\* found it true returns only once the task it cancelled has ended, with the
\* flag false unless a later start() has launched another loop; a loop whose
\* manager was stopped begins no check-and-refresh; and the clock does not
\* advance while such a loop is alive.
C24_StopEndsItsLoop ==
    [][/\ \A c \in Callers :
            /\ (StopReturns(c) /\ event'.result = "noop") =>
                   ~manager.running /\ manager' = manager /\ loop' = loop
            /\ (StopReturns(c) /\ event'.seg = "resume") =>
                   /\ caller[c].pc = "waiting"
                   /\ loop[caller[c].task].pc = "done"
                   /\ manager'.running => manager'.background_task # caller[c].task
       /\ \A l \in Loops :
            (Alive(l) /\ ~(manager.running /\ manager.background_task = l)) =>
                /\ ~LoopChecks(l)
                /\ event'.op # "tick"
    ]_allvars

\* Witness of C24: a stop() has returned once the task it cancelled had
\* ended: the manager, which refreshed its Credentials over a second ago, is
\* stopped with no loop left.
C24_Witness ==
    /\ event.op = "stop" /\ event.seg = "resume"
    /\ ~manager.running /\ manager.background_task # 0
    /\ \A l \in Loops : loop[l].pc = "none"
    /\ manager.last_refresh_time = 1

\* C25: a loop whose refresh call is in flight leaves that call only by the
\* call's return, after which check-and-refresh completes.
C25_RefreshInFlightFinishes ==
    [][\A l \in Loops :
         (loop[l].pc = "refreshing" /\ loop'[l].pc # "refreshing") =>
             event'.op = "loop" /\ event'.id = l /\ event'.seg = "resume"
    ]_allvars

\* C26: a check-and-refresh invokes the refresh capability exactly when
\* Credentials are held and expire within refresh_buffer_minutes, the
\* boundary included, and returns True when they expire later; a refresh
\* call is made by a check-and-refresh only.
C26_RefreshIffWithinBuffer ==
    [][/\ event'.check # "none" =>
            /\ event'.check = "refresh" <=>
                   /\ yahoo_auth'.tokens # NoTokens
                   /\ yahoo_auth'.tokens.ttl <= refresh_buffer_minutes * 60
            /\ event'.check = "valid" => event'.result = "True"
            /\ event'.check = "no_tokens" <=> yahoo_auth'.tokens = NoTokens
       /\ \A c \in Callers :
            (caller'[c].pc = "refreshing" /\ caller[c].pc # "refreshing") =>
                event'.check = "refresh" /\ event'.id = c
       /\ \A l \in Loops :
            (loop'[l].pc = "refreshing" /\ loop[l].pc # "refreshing") =>
                event'.check = "refresh" /\ event'.id = l
    ]_allvars

\* Witness of C26: a check-and-refresh has invoked the refresh for
\* Credentials that expire in five minutes, the buffer being ten.
C26_Witness ==
    /\ event.check = "refresh"
    /\ yahoo_auth.tokens.ttl = 300
    /\ refresh_buffer_minutes = 10
    /\ \E l \in Loops : loop[l].pc = "refreshing"

\* C27: after a successful refresh the new Credentials are in durable
\* storage, refresh_count is one more, last_refresh_time is now, last_error
\* is None and check-and-refresh returns True.
C27_RefreshedIsPersisted ==
    [][event'.refresh = "ok" =>
         /\ storage'.env.access_token = yahoo_auth'.tokens.access_token
         /\ manager'.refresh_count = manager.refresh_count + 1
         /\ manager'.last_refresh_time = 0
         /\ manager'.last_error = "None"
         /\ event'.result = "True"
    ]_allvars

\* C28: when the refresh call fails, the Credentials, refresh_count,
\* last_refresh_time and durable storage stay as they were, last_error is
\* set and check-and-refresh returns False.
C28_FailureChangesOnlyLastError ==
    [][event'.refresh = "error" =>
         /\ yahoo_auth'.tokens = yahoo_auth.tokens
         /\ manager'.refresh_count = manager.refresh_count
         /\ manager'.last_refresh_time = manager.last_refresh_time
         /\ manager'.running = manager.running
         /\ manager'.background_task = manager.background_task
         /\ storage' = storage
         /\ manager'.last_error # "None"
         /\ event'.result = "False"
    ]_allvars

\* Witness of C28: a refresh has just failed after an earlier one had
\* succeeded, and the count and Credentials of that one stand.
C28_Witness ==
    /\ event.refresh = "error" /\ event.result = "False"
    /\ manager.refresh_count = 1 /\ manager.last_refresh_time = 1
    /\ yahoo_auth.tokens.access_token = 1
    /\ manager.last_error # "None"

\* C29: once a refresh has failed with a revoked grant, no cycle of the loop
\* invokes the refresh capability.
C29_NoRefreshAfterRevocation ==
    [][(event'.op = "loop" /\ event'.check = "refresh") =>
         /\ manager.last_error # "Refresh token expired - manual auth required"
         /\ yahoo_auth.auth_state # "REFRESH_FAILED"
    ]_allvars

\* C30: every cycle of the loop that finds Credentials inside the refresh
\* buffer attempts the refresh, whatever failed before; and after a
\* transient failure, if the manager keeps running and the capability keeps
\* working, the manager comes to hold refreshed Credentials with last_error
\* None.
C30_TransientFailureIsRetried ==
    /\ [][\A l \in Loops :
             (LoopChecks(l) /\ yahoo_auth'.tokens # NoTokens
                 /\ yahoo_auth'.tokens.ttl <= refresh_buffer_minutes * 60) =>
                 loop'[l].pc = "refreshing"
       ]_allvars
    /\ (/\ manager.last_error = "Refresh failed"
        /\ manager.running /\ provider = "working"
        /\ manager.refresh_count < MaxRefreshes)
          ~> \/ /\ manager.last_error = "None"
                /\ yahoo_auth.tokens.access_token > 0
                /\ yahoo_auth.tokens.ttl > refresh_buffer_minutes * 60
             \/ ~manager.running
             \/ provider # "working"

\* Witness of C30: with the error of a failed refresh standing, a cycle of
\* the loop has invoked the refresh again.
C30_Witness ==
    /\ event.op = "loop" /\ event.seg = "call" /\ event.check = "refresh"
    /\ manager.last_error = "Refresh failed"
    /\ yahoo_auth.auth_state = "TOKEN_EXPIRED"
    /\ manager.running /\ loop[event.id].pc = "refreshing"

C32_ForceRefreshAlwaysRefreshes ==
    [][event'.op = "force_refresh" =>
         /\ (event'.seg = "call" /\ yahoo_auth'.tokens # NoTokens) =>
                event'.check = "refresh"
         /\ event'.result = "True" <=> event'.refresh = "ok"
    ]_allvars

\* C33: when writing the new Credentials into the launcher configuration
\* fails, the refresh still counts: check-and-refresh returns True,
\* refresh_count is one more, last_error is None and the Credentials held are
\* the new ones; the launcher configuration keeps what it had.
C33_MirrorFailureIsNotAFailure ==
    [][event'.mirror = "failed" =>
         /\ event'.refresh = "ok" /\ event'.result = "True"
         /\ manager'.refresh_count = manager.refresh_count + 1
         /\ manager'.last_error = "None"
         /\ manager'.last_refresh_time = 0
         /\ yahoo_auth'.tokens.access_token = manager'.refresh_count
         /\ storage'.config = storage.config
    ]_allvars

\* Witness of C33: a refresh has succeeded while the launcher configuration,
\* which exists, could not be written and still holds the old tokens.
C33_Witness ==
    /\ event.mirror = "failed" /\ event.refresh = "ok" /\ event.result = "True"
    /\ storage.config = Config(0)
    /\ yahoo_auth.tokens.access_token = 1 /\ manager.refresh_count = 1
    /\ manager.last_error = "None"

\* C34: the Credentials held are always one whole value, and when the later
\* of two overlapping refreshes has finished, the .env file holds the whole
\* value that this last writer obtained.  (The premise of the second part: a
\* refresh call returns with success after another one, issued for the same
\* stale Credentials, has already replaced them.)
C34_WholeValueOfLastWriter ==
    [][/\ yahoo_auth'.tokens.access_token = yahoo_auth'.tokens.refresh_token
       /\ (event'.refresh = "ok" /\ yahoo_auth.tokens.ttl > refresh_buffer_minutes * 60) =>
            storage'.env = Tokens(yahoo_auth'.tokens.access_token, token_lifetime)
    ]_allvars

\* C40: a request that has slept for the time to the reset of the window
\* that its denied check read is admitted by its re-check; a request ends
\* with RateLimitError only if that time was longer than the cap of the
\* sleep.
C40_WaitWithinCapAdmits ==
    \A t \in Requests :
        (/\ req[t].pc = "done" /\ req[t].result.kind = "RateLimitError"
         /\ req[t].wait_time > 0) =>
            req[t].wait_time > MaxWait

\* C36: the initial check of start() and the first cycle of the loop that
\* start() has launched never both have a refresh call in flight.
C36_StartRefreshesOnce ==
    \A c \in Callers, l \in Loops :
        ~(/\ caller[c].pc = "refreshing" /\ caller[c].op = "start"
          /\ l = manager.background_task
          /\ loop[l].pc = "refreshing" /\ loop[l].i = 0)

\* C38: whenever check-and-refresh returns True, last_error is None
\* afterwards.
C38_TrueMeansNoError ==
    [][event'.result = "True" => manager'.last_error = "None"]_allvars

\* C35: get_auto_token_manager builds one AutoTokenManager and calls start()
\* on it once, whatever the number and interleaving of its calls; every call
\* returns that instance, and a call that finds it leaves the manager and
\* its loops as they are.
C35_OneManagerStartedOnce ==
    [][/\ singleton'.constructed <= 1 /\ singleton'.starts <= 1
       /\ event'.op = "get" =>
            /\ singleton'.global
            /\ singleton'.constructed = 1 /\ singleton'.starts = 1
       /\ (event'.op = "get" /\ event'.result = "instance") =>
            /\ singleton' = singleton
            /\ manager' = manager /\ loop' = loop
    ]_allvars

\* Witness of C35: a second call of get_auto_token_manager has returned the
\* instance while the first call is suspended in start().
C35_Witness ==
    /\ event.op = "get" /\ event.result = "instance"
    /\ singleton.constructed = 1 /\ singleton.starts = 1
    /\ \E c \in Callers : caller[c].pc = "refreshing" /\ caller[c].op = "get"

\* C37: a call of get_auto_token_manager returns the manager only after the
\* initial check-and-refresh of start() has completed.
C37_ManagerOnlyAfterInitialCheck ==
    [][(event'.op = "get" /\ event'.result = "instance") =>
         \A c \in Callers : ~(caller'[c].pc = "refreshing" /\ caller'[c].op = "get")
    ]_allvars

\* C39: an operation that calls fetch operations holds no slot of the gate
\* when one of them enters or waits at "async with self._semaphore", so with
\* a gate of one slot every such operation that was called returns or raises.
C39_CompositesComplete ==
    /\ [](\A t \in Fetchers :
            req[t].pc \in {"queued", "woken", "ratewait", "calling", "backoff"}
               => composite[t].held = 0)
    /\ \A t \in Fetchers :
          (composite[t].pc \notin {"idle", "done"}) ~> (composite[t].pc = "done")

\* Two operations are inside their fetch operations with one slot: one holds
\* it for its provider call, the other waits for it.
C39_Witness ==
    \E t, u \in Fetchers :
       /\ composite[t].pc = "request" /\ req[t].pc = "calling"
       /\ composite[u].pc = "request" /\ req[u].pc = "queued"
       /\ composite[u].op = "get_user_team_roster" /\ composite[u].stage = 2
       /\ sem_value = 0

=============================================================================
